---- MODULE Spec2Model ----
(***************************************************************************)
(* Tweet-Predictor: the scoring engine (class TweetAnalyzer, src/main.js). *)
(*                                                                         *)
(* A JavaScript string is modelled as what it is: a sequence of UTF-16     *)
(* code units, each an integer.  String operations (length, match with a   *)
(* global regular expression, includes, split, trim, toLowerCase,          *)
(* toUpperCase) are operators over such sequences.  JavaScript numbers are *)
(* IEEE-754 doubles; the weighted aggregate is computed in the model with  *)
(* the same sequence of correctly rounded operations (section "doubles").  *)
(*                                                                         *)
(* The page (class TweetPredictor, src/main.js) and the database helpers   *)
(* (dbHelpers, src/supabase-config.js) are modelled as a state machine     *)
(* with one step per await of analyzeTweet; calls in flight interleave and *)
(* every database request answers with data or with an error.              *)
(* The handlers of the sign-in and the sign-out event join this machine in *)
(* the session specification.  The login form (class RateLimiter and       *)
(* TweetPredictor.handleLogin, src/index.html) is a machine of its own,    *)
(* with a clock.                                                           *)
(***************************************************************************)
EXTENDS Integers, Sequences, FiniteSets, TLC, Bags

(***************************************************************************)
(* Bounds of the model                                                     *)
(***************************************************************************)
\* the greatest length a text is filled up to (beyond the 280 limit)
MaxPad == 281
\* how many times the closing mark of a text is typed at most
MaxRepeat == 5

(***************************************************************************)
(* Characters: UTF-16 code units                                           *)
(***************************************************************************)
IsUpperAZ(c) == c >= 65 /\ c <= 90           \* [A-Z]
IsLowerAZ(c) == c >= 97 /\ c <= 122          \* [a-z]
IsDigit(c) == c >= 48 /\ c <= 57             \* \d
IsWordChar(c) == IsUpperAZ(c) \/ IsLowerAZ(c) \/ IsDigit(c) \/ c = 95   \* \w
IsHighSurrogate(c) == c >= 55296 /\ c <= 56319    \* D800..DBFF
IsLowSurrogate(c) == c >= 56320 /\ c <= 57343     \* DC00..DFFF
\* String.prototype.trim strips WhiteSpace and LineTerminator code units
IsTrimSpace(c) == c \in {9, 10, 11, 12, 13, 32, 160, 5760, 8232, 8233, 8239, 8287, 12288, 65279}
                    \/ (c >= 8192 /\ c <= 8202)
\* the class [.!?] of the sentence splitter
IsTerminator(c) == c \in {46, 33, 63}

\* the character class of the emoji expression, over code points
IsEmojiCodePoint(cp) ==
    \/ (cp >= 128512 /\ cp <= 128591)     \* 1F600-1F64F
    \/ (cp >= 127744 /\ cp <= 128511)     \* 1F300-1F5FF
    \/ (cp >= 128640 /\ cp <= 128767)     \* 1F680-1F6FF
    \/ (cp >= 127456 /\ cp <= 127487)     \* 1F1E0-1F1FF
    \/ (cp >= 9728 /\ cp <= 9983)         \* 2600-26FF
    \/ (cp >= 9984 /\ cp <= 10175)        \* 2700-27BF

\* with the u flag a regular expression reads a well-formed surrogate pair as
\* one code point, and anything else as the code unit itself
IsPairAt(s, i) == i < Len(s) /\ IsHighSurrogate(s[i]) /\ IsLowSurrogate(s[i + 1])
CodePointAt(s, i) ==
    IF IsPairAt(s, i)
    THEN 65536 + (s[i] - 55296) * 1024 + (s[i + 1] - 56320)
    ELSE s[i]

(***************************************************************************)
(* String operations                                                       *)
(***************************************************************************)
\* String.prototype.toLowerCase / toUpperCase on the letters A-Z, a-z; every
\* other code unit the model types (digits, punctuation, white space, emoji,
\* surrogates) has no case mapping and is left as it is
LowerUnit(c) == IF IsUpperAZ(c) THEN c + 32 ELSE c
UpperUnit(c) == IF IsLowerAZ(c) THEN c - 32 ELSE c
toLowerCase(s) == [i \in 1..Len(s) |-> LowerUnit(s[i])]
toUpperCase(s) == [i \in 1..Len(s) |-> UpperUnit(s[i])]

\* String.prototype.includes(w)
includes(s, w) ==
    \E i \in 1..(Len(s) - Len(w) + 1) : \A j \in 1..Len(w) : s[i + j - 1] = w[j]

\* (s.match(/c/g) || []).length for a one-character expression
CountChar(s, c) == Cardinality({i \in 1..Len(s) : s[i] = c})

\* (s.match(/#\w+/g) || []).length.  A match starts at a '#' that is
\* followed by a word character and swallows the run of word characters
\* after it; '#' is no word character, so no match swallows the start of
\* another one and every such '#' starts exactly one match
CountHashtags(s) ==
    Cardinality({i \in 1..(Len(s) - 1) : s[i] = 35 /\ IsWordChar(s[i + 1])})

\* (s.match(/[..emoji ranges..]/gu) || []).length: one match per code point
\* of the class.  The second half of a surrogate pair and a lone surrogate
\* are themselves outside the class, so it is enough to test the code point
\* that starts at each position
CountEmojis(s) ==
    Cardinality({i \in 1..Len(s) : IsEmojiCodePoint(CodePointAt(s, i))})

\* s.split(/[.!?]+/).filter(p => p.trim().length > 0).length: the non-empty
\* pieces are the maximal runs free of terminators, each named here by the
\* index it starts at; filter keeps a piece when it holds at least one code
\* unit that trim does not strip
CountSentences(s) ==
    LET n == Len(s)
        pieces == {a \in 1..n : ~IsTerminator(s[a]) /\ (a = 1 \/ IsTerminator(s[a - 1]))}
        kept(a) == \E i \in a..n : /\ ~IsTrimSpace(s[i])
                                   /\ \A k \in a..i : ~IsTerminator(s[k])
    IN Cardinality({a \in pieces : kept(a)})

\* /\d/.test(s), /[A-Z]/.test(s)
HasDigit(s) == \E i \in 1..Len(s) : IsDigit(s[i])
HasUpperAZ(s) == \E i \in 1..Len(s) : IsUpperAZ(s[i])

Min(a, b) == IF a < b THEN a ELSE b
Max(a, b) == IF a > b THEN a ELSE b

(***************************************************************************)
(* Doubles.  Every number the aggregate touches is a multiple of 2^-55     *)
(* below 2^7, so a double x is held as the integer x * 2^55 in three limbs *)
(* <<n2, n1, n0>> of 20 bits (n2 may be wider): x * 2^55 = n2*B^2 + n1*B   *)
(* + n0.  Each arithmetic operation computes the exact result and rounds   *)
(* it to 53 significant bits, ties to even, as IEEE-754 does.              *)
(***************************************************************************)
LimbBase == 2^20
DblZero == <<0, 0, 0>>

\* carry propagation
DblNorm(x) ==
    LET c0 == x[3] \div LimbBase
        m1 == x[2] + c0
    IN <<x[1] + (m1 \div LimbBase), m1 % LimbBase, x[3] % LimbBase>>

\* number of significant bits of a natural number
RECURSIVE BitLen(_)
BitLen(v) == IF v = 0 THEN 0 ELSE 1 + BitLen(v \div 2)

\* round an exact value to 53 significant bits, nearest, ties to even
DblRound53(x) ==
    LET k == BitLen(x[1]) + 40 - 53       \* bits to drop; below 20 here
    IN IF k <= 0 THEN x
       ELSE LET unit == 2^k
                rest == x[3] % unit
                kept == x[3] - rest
                odd == (kept \div unit) % 2 = 1
                up == (2 * rest > unit) \/ (2 * rest = unit /\ odd)
            IN DblNorm(<<x[1], x[2], kept + (IF up THEN unit ELSE 0)>>)

\* a decimal literal p/q with 1/8 <= p/q < 1/4 (such as 0.2 and 0.15) denotes
\* the double nearest to it, a multiple of 2^-55: short division of p * 2^55
\* by q over the limbs, rounded to nearest
DblLiteral(p, q) ==
    LET a2 == p * 2^15
        q2 == a2 \div q
        a1 == (a2 % q) * LimbBase
        q1 == a1 \div q
        a0 == (a1 % q) * LimbBase
        q0 == a0 \div q
        r == a0 % q
    IN DblNorm(<<q2, q1, q0 + (IF 2 * r >= q THEN 1 ELSE 0)>>)

\* the double of a small integer k
DblFromInt(k) == <<k * 2^15, 0, 0>>

\* k * x for an integer-valued double k (a factor score, or the literal 10)
DblMulInt(k, x) == DblRound53(DblNorm(<<k * x[1], k * x[2], k * x[3]>>))

\* x + y
DblAdd(x, y) == DblRound53(DblNorm(<<x[1] + y[1], x[2] + y[2], x[3] + y[3]>>))

\* x / y: the engine only ever divides by the sum of the six weights, which
\* evaluates to exactly 1.0 (TotalWeightIsOne below), and x / 1.0 = x
DblDiv(x, y) == CASE y = DblFromInt(1) -> x

\* x < k and x >= k for an integer k
DblLess(x, k) == x[1] < k * 2^15
DblAtLeast(x, k) == ~DblLess(x, k)

\* variant: Math.floor(x) in the place of Math.round(x)
MathRound_Floor(x) == x[1] \div 2^15

\* Math.round(x): the integer nearest to x, halves rounded up
MathRound(x) ==
    (x[1] \div 2^15) + (IF x[1] % 2^15 >= 2^14 THEN 1 ELSE 0)

(***************************************************************************)
(* The engine: class TweetAnalyzer                                         *)
(***************************************************************************)
\* the keys of this.factors in insertion order (the order Object.values and
\* Object.entries walk them in)
FactorNames == <<"length", "hashtags", "emojis", "engagement", "sentiment", "structure">>

\* constructor(tweet); threw records that a method raised an error
TweetAnalyzer(tweet) ==
    [tweet |-> tweet,
     threw |-> FALSE,
     factors |-> [length |-> [weight |-> DblLiteral(2, 10), score |-> 0],
                  hashtags |-> [weight |-> DblLiteral(15, 100), score |-> 0],
                  emojis |-> [weight |-> DblLiteral(15, 100), score |-> 0],
                  engagement |-> [weight |-> DblLiteral(2, 10), score |-> 0],
                  sentiment |-> [weight |-> DblLiteral(15, 100), score |-> 0],
                  structure |-> [weight |-> DblLiteral(15, 100), score |-> 0]]]

\* s.match(re) for the four global expressions of the engine: null when
\* nothing matches, otherwise the array of matches (held by its length)
match(s, re) ==
    LET k == CASE re = "#\\w+" -> CountHashtags(s)
               [] re = "emoji" -> CountEmojis(s)
               [] re = "\\?" -> CountChar(s, 63)
               [] re = "!" -> CountChar(s, 33)
    IN [isNull |-> k = 0, length |-> k]

\* variant: the match result is used without the "|| []" default
OrEmpty_NoDefault(m) == m

\* m || []
OrEmpty(m) == IF m.isNull THEN [isNull |-> FALSE, length |-> 0] ELSE m

\* reading .length of null raises a TypeError
Throw(self) == [self EXCEPT !.threw = TRUE]

\* variant: the first band has lost its lower limit, length <= 100
analyzeLengthFactor_NoLowerBound(self) ==
    LET length == Len(self.tweet)
        score == IF length <= 100 THEN 10
                 ELSE IF length >= 50 /\ length <= 140 THEN 8
                 ELSE IF length >= 140 /\ length <= 200 THEN 7
                 ELSE IF length < 30 THEN 4
                 ELSE IF length > 250 THEN 3
                 ELSE 5
    IN [self EXCEPT !.factors.length.score = score]

\* variant: the length is counted in code points, [...this.tweet].length
analyzeLengthFactor_ByCodePoints(self) ==
    LET length == Len(self.tweet)
                  - Cardinality({i \in 1..Len(self.tweet) : IsPairAt(self.tweet, i)})
        score == IF length >= 71 /\ length <= 100 THEN 10
                 ELSE IF length >= 50 /\ length <= 140 THEN 8
                 ELSE IF length >= 140 /\ length <= 200 THEN 7
                 ELSE IF length < 30 THEN 4
                 ELSE IF length > 250 THEN 3
                 ELSE 5
    IN [self EXCEPT !.factors.length.score = score]

\* variant: the 140..200 test is made before the 50..140 test
analyzeLengthFactor_Reordered(self) ==
    LET length == Len(self.tweet)
        score == IF length >= 71 /\ length <= 100 THEN 10
                 ELSE IF length >= 140 /\ length <= 200 THEN 7
                 ELSE IF length >= 50 /\ length <= 140 THEN 8
                 ELSE IF length < 30 THEN 4
                 ELSE IF length > 250 THEN 3
                 ELSE 5
    IN [self EXCEPT !.factors.length.score = score]

analyzeLengthFactor(self) ==
    LET length == Len(self.tweet)
        score == IF length >= 71 /\ length <= 100 THEN 10
                 ELSE IF length >= 50 /\ length <= 140 THEN 8
                 ELSE IF length >= 140 /\ length <= 200 THEN 7
                 ELSE IF length < 30 THEN 4
                 ELSE IF length > 250 THEN 3
                 ELSE 5
    IN [self EXCEPT !.factors.length.score = score]

\* variant: the last band starts above four, count > 4, as for the emojis
analyzeHashtagFactor_AboveFour(self) ==
    LET hashtags == OrEmpty(match(self.tweet, "#\\w+"))
        count == hashtags.length
        score == IF count = 1 \/ count = 2 THEN 10
                 ELSE IF count = 3 THEN 8
                 ELSE IF count = 0 THEN 6
                 ELSE IF count > 4 THEN 4
                 ELSE 5
    IN IF hashtags.isNull THEN Throw(self)
       ELSE [self EXCEPT !.factors.hashtags.score = score]

analyzeHashtagFactor(self) ==
    LET hashtags == OrEmpty(match(self.tweet, "#\\w+"))
        count == hashtags.length
        score == IF count = 1 \/ count = 2 THEN 10
                 ELSE IF count = 3 THEN 8
                 ELSE IF count = 0 THEN 6
                 ELSE IF count > 3 THEN 4
                 ELSE 5
    IN IF hashtags.isNull THEN Throw(self)
       ELSE [self EXCEPT !.factors.hashtags.score = score]

\* variant: the last band starts above three, count > 3, as for the hashtags
analyzeEmojiFactor_AboveThree(self) ==
    LET emojis == OrEmpty(match(self.tweet, "emoji"))
        count == emojis.length
        score == IF count = 1 \/ count = 2 THEN 10
                 ELSE IF count = 3 THEN 8
                 ELSE IF count = 0 THEN 6
                 ELSE IF count > 3 THEN 4
                 ELSE 5
    IN IF emojis.isNull THEN Throw(self)
       ELSE [self EXCEPT !.factors.emojis.score = score]

analyzeEmojiFactor(self) ==
    LET emojis == OrEmpty(match(self.tweet, "emoji"))
        count == emojis.length
        score == IF count = 1 \/ count = 2 THEN 10
                 ELSE IF count = 3 THEN 8
                 ELSE IF count = 0 THEN 6
                 ELSE IF count > 4 THEN 4
                 ELSE 5
    IN IF emojis.isNull THEN Throw(self)
       ELSE [self EXCEPT !.factors.emojis.score = score]

engagementWords == <<
    <<119, 104, 97, 116>>,    \* what
    <<104, 111, 119>>,    \* how
    <<119, 104, 121>>,    \* why
    <<119, 104, 101, 110>>,    \* when
    <<119, 104, 101, 114, 101>>,    \* where
    <<116, 104, 105, 110, 107>>,    \* think
    <<116, 104, 111, 117, 103, 104, 116, 115>>,    \* thoughts
    <<111, 112, 105, 110, 105, 111, 110>>,    \* opinion
    <<97, 103, 114, 101, 101>>,    \* agree
    <<100, 105, 115, 97, 103, 114, 101, 101>>,    \* disagree
    <<99, 111, 109, 109, 101, 110, 116>>,    \* comment
    <<115, 104, 97, 114, 101>>,    \* share
    <<114, 101, 116, 119, 101, 101, 116>>,    \* retweet
    <<108, 105, 107, 101>>,    \* like
    <<102, 111, 108, 108, 111, 119>>,    \* follow
    <<99, 104, 101, 99, 107, 32, 111, 117, 116>>,    \* check out
    <<108, 111, 111, 107, 32, 97, 116>>,    \* look at
    <<115, 101, 101>>,    \* see
    <<97, 109, 97, 122, 105, 110, 103>>,    \* amazing
    <<105, 110, 99, 114, 101, 100, 105, 98, 108, 101>>,    \* incredible
    <<97, 119, 101, 115, 111, 109, 101>>,    \* awesome
    <<108, 111, 118, 101>>,    \* love
    <<104, 97, 116, 101>>,    \* hate
    <<98, 101, 115, 116>>,    \* best
    <<119, 111, 114, 115, 116>>,    \* worst
    <<102, 97, 118, 111, 114, 105, 116, 101>>,    \* favorite
    <<112, 111, 108, 108>>,    \* poll
    <<118, 111, 116, 101>>,    \* vote
    <<99, 104, 111, 111, 115, 101>>    \* choose
>>

\* how many words of a list the text includes: words.forEach(word => { if
\* (s.includes(word)) count++ }).  A word can only occur at a position that
\* holds the first code unit of some word of the list, so those positions
\* are collected once and each word is looked for there
CountIncluded(s, words) ==
    LET firsts == {words[k][1] : k \in 1..Len(words)}
        starts == {i \in 1..Len(s) : s[i] \in firsts}
        occursAt(w, i) == i + Len(w) - 1 <= Len(s) /\ \A j \in 1..Len(w) : s[i + j - 1] = w[j]
    IN Cardinality({k \in 1..Len(words) : \E i \in starts : occursAt(words[k], i)})

\* variant: any number of exclamation marks adds 1, exclamationMarks > 0
analyzeEngagementFactor_NoUpperLimit(self) ==
    LET qm == OrEmpty(match(self.tweet, "\\?"))
        em == OrEmpty(match(self.tweet, "!"))
        questionMarks == qm.length
        exclamationMarks == em.length
        engagementWordCount == CountIncluded(toLowerCase(self.tweet), engagementWords)
        score == 5
                 + (IF questionMarks > 0 THEN 2 ELSE 0)
                 + (IF exclamationMarks > 0 THEN 1 ELSE 0)
                 + (IF engagementWordCount >= 1 THEN 2 ELSE 0)
                 + (IF engagementWordCount >= 3 THEN 1 ELSE 0)
    IN IF qm.isNull \/ em.isNull THEN Throw(self)
       ELSE [self EXCEPT !.factors.engagement.score = Min(score, 10)]

\* variant: a question mark adds 1, like an exclamation mark
analyzeEngagementFactor_QuestionAddsOne(self) ==
    LET qm == OrEmpty(match(self.tweet, "\\?"))
        em == OrEmpty(match(self.tweet, "!"))
        questionMarks == qm.length
        exclamationMarks == em.length
        engagementWordCount == CountIncluded(toLowerCase(self.tweet), engagementWords)
        score == 5
                 + (IF questionMarks > 0 THEN 1 ELSE 0)
                 + (IF exclamationMarks > 0 /\ exclamationMarks <= 2 THEN 1 ELSE 0)
                 + (IF engagementWordCount >= 1 THEN 2 ELSE 0)
                 + (IF engagementWordCount >= 3 THEN 1 ELSE 0)
    IN IF qm.isNull \/ em.isNull THEN Throw(self)
       ELSE [self EXCEPT !.factors.engagement.score = Min(score, 10)]

analyzeEngagementFactor(self) ==
    LET qm == OrEmpty(match(self.tweet, "\\?"))
        em == OrEmpty(match(self.tweet, "!"))
        questionMarks == qm.length
        exclamationMarks == em.length
        engagementWordCount == CountIncluded(toLowerCase(self.tweet), engagementWords)
        score == 5
                 + (IF questionMarks > 0 THEN 2 ELSE 0)
                 + (IF exclamationMarks > 0 /\ exclamationMarks <= 2 THEN 1 ELSE 0)
                 + (IF engagementWordCount >= 1 THEN 2 ELSE 0)
                 + (IF engagementWordCount >= 3 THEN 1 ELSE 0)
    IN IF qm.isNull \/ em.isNull THEN Throw(self)
       ELSE [self EXCEPT !.factors.engagement.score = Min(score, 10)]

positiveWords == <<
    <<97, 109, 97, 122, 105, 110, 103>>,    \* amazing
    <<97, 119, 101, 115, 111, 109, 101>>,    \* awesome
    <<98, 114, 105, 108, 108, 105, 97, 110, 116>>,    \* brilliant
    <<101, 120, 99, 101, 108, 108, 101, 110, 116>>,    \* excellent
    <<102, 97, 110, 116, 97, 115, 116, 105, 99>>,    \* fantastic
    <<103, 114, 101, 97, 116>>,    \* great
    <<105, 110, 99, 114, 101, 100, 105, 98, 108, 101>>,    \* incredible
    <<111, 117, 116, 115, 116, 97, 110, 100, 105, 110, 103>>,    \* outstanding
    <<112, 101, 114, 102, 101, 99, 116>>,    \* perfect
    <<119, 111, 110, 100, 101, 114, 102, 117, 108>>,    \* wonderful
    <<108, 111, 118, 101>>,    \* love
    <<98, 101, 115, 116>>,    \* best
    <<101, 120, 99, 105, 116, 101, 100>>,    \* excited
    <<116, 104, 114, 105, 108, 108, 101, 100>>,    \* thrilled
    <<104, 97, 112, 112, 121>>,    \* happy
    <<115, 117, 99, 99, 101, 115, 115, 102, 117, 108>>,    \* successful
    <<97, 99, 104, 105, 101, 118, 101, 109, 101, 110, 116>>,    \* achievement
    <<119, 105, 110>>,    \* win
    <<118, 105, 99, 116, 111, 114, 121>>,    \* victory
    <<98, 114, 101, 97, 107, 116, 104, 114, 111, 117, 103, 104>>,    \* breakthrough
    <<105, 110, 110, 111, 118, 97, 116, 105, 111, 110>>,    \* innovation
    <<103, 114, 111, 119, 116, 104>>,    \* growth
    <<112, 114, 111, 103, 114, 101, 115, 115>>    \* progress
>>

negativeWords == <<
    <<97, 119, 102, 117, 108>>,    \* awful
    <<116, 101, 114, 114, 105, 98, 108, 101>>,    \* terrible
    <<104, 111, 114, 114, 105, 98, 108, 101>>,    \* horrible
    <<119, 111, 114, 115, 116>>,    \* worst
    <<104, 97, 116, 101>>,    \* hate
    <<100, 105, 115, 103, 117, 115, 116, 105, 110, 103>>,    \* disgusting
    <<97, 110, 110, 111, 121, 105, 110, 103>>,    \* annoying
    <<102, 114, 117, 115, 116, 114, 97, 116, 101, 100>>,    \* frustrated
    <<97, 110, 103, 114, 121>>,    \* angry
    <<100, 105, 115, 97, 112, 112, 111, 105, 110, 116, 101, 100>>,    \* disappointed
    <<102, 97, 105, 108, 101, 100>>,    \* failed
    <<102, 97, 105, 108, 117, 114, 101>>,    \* failure
    <<112, 114, 111, 98, 108, 101, 109>>,    \* problem
    <<105, 115, 115, 117, 101>>,    \* issue
    <<99, 114, 105, 115, 105, 115>>,    \* crisis
    <<100, 105, 115, 97, 115, 116, 101, 114>>,    \* disaster
    <<117, 110, 102, 111, 114, 116, 117, 110, 97, 116, 101>>    \* unfortunate
>>

\* variant: the negative branch subtracts from 5, the base score, not from 4
analyzeSentimentFactor_FromBase(self) ==
    LET lowerTweet == toLowerCase(self.tweet)
        positiveCount == CountIncluded(lowerTweet, positiveWords)
        negativeCount == CountIncluded(lowerTweet, negativeWords)
        score == IF positiveCount > negativeCount THEN 8 + Min(positiveCount, 2)
                 ELSE IF negativeCount > positiveCount THEN 5 - Min(negativeCount, 2)
                 ELSE 5
    IN [self EXCEPT !.factors.sentiment.score = Max(1, Min(score, 10))]

analyzeSentimentFactor(self) ==
    LET lowerTweet == toLowerCase(self.tweet)
        positiveCount == CountIncluded(lowerTweet, positiveWords)
        negativeCount == CountIncluded(lowerTweet, negativeWords)
        score == IF positiveCount > negativeCount THEN 8 + Min(positiveCount, 2)
                 ELSE IF negativeCount > positiveCount THEN 4 - Min(negativeCount, 2)
                 ELSE 5
    IN [self EXCEPT !.factors.sentiment.score = Max(1, Min(score, 10))]

\* variant: the score starts from the one the factor already holds,
\* let score = this.factors.structure.score || 5
analyzeStructureFactor_Accumulating(self) ==
    LET sentences == CountSentences(self.tweet)
        hasLineBreaks == includes(self.tweet, <<10>>)
        hasNumbers == HasDigit(self.tweet)
        hasCapitalization == HasUpperAZ(self.tweet)
        score == (IF self.factors.structure.score = 0 THEN 5 ELSE self.factors.structure.score)
                 + (IF sentences >= 2 /\ sentences <= 4 THEN 2 ELSE 0)
                 + (IF hasLineBreaks /\ Len(self.tweet) > 100 THEN 1 ELSE 0)
                 + (IF hasNumbers THEN 1 ELSE 0)
                 + (IF hasCapitalization THEN 1 ELSE 0)
                 - (IF self.tweet = toLowerCase(self.tweet) THEN 2 ELSE 0)
                 - (IF self.tweet = toUpperCase(self.tweet) THEN 3 ELSE 0)
    IN [self EXCEPT !.factors.structure.score = Max(1, Min(score, 10))]

\* variant: a text in capitals loses 2, as a text in lower case does
analyzeStructureFactor_UpperPenalty2(self) ==
    LET sentences == CountSentences(self.tweet)
        hasLineBreaks == includes(self.tweet, <<10>>)
        hasNumbers == HasDigit(self.tweet)
        hasCapitalization == HasUpperAZ(self.tweet)
        score == 5
                 + (IF sentences >= 2 /\ sentences <= 4 THEN 2 ELSE 0)
                 + (IF hasLineBreaks /\ Len(self.tweet) > 100 THEN 1 ELSE 0)
                 + (IF hasNumbers THEN 1 ELSE 0)
                 + (IF hasCapitalization THEN 1 ELSE 0)
                 - (IF self.tweet = toLowerCase(self.tweet) THEN 2 ELSE 0)
                 - (IF self.tweet = toUpperCase(self.tweet) THEN 2 ELSE 0)
    IN [self EXCEPT !.factors.structure.score = Max(1, Min(score, 10))]

\* variant: the final score is capped at 10 but not raised to 1
analyzeStructureFactor_NoFloor(self) ==
    LET sentences == CountSentences(self.tweet)
        hasLineBreaks == includes(self.tweet, <<10>>)
        hasNumbers == HasDigit(self.tweet)
        hasCapitalization == HasUpperAZ(self.tweet)
        score == 5
                 + (IF sentences >= 2 /\ sentences <= 4 THEN 2 ELSE 0)
                 + (IF hasLineBreaks /\ Len(self.tweet) > 100 THEN 1 ELSE 0)
                 + (IF hasNumbers THEN 1 ELSE 0)
                 + (IF hasCapitalization THEN 1 ELSE 0)
                 - (IF self.tweet = toLowerCase(self.tweet) THEN 2 ELSE 0)
                 - (IF self.tweet = toUpperCase(self.tweet) THEN 3 ELSE 0)
    IN [self EXCEPT !.factors.structure.score = Min(score, 10)]

analyzeStructureFactor(self) ==
    LET sentences == CountSentences(self.tweet)
        hasLineBreaks == includes(self.tweet, <<10>>)
        hasNumbers == HasDigit(self.tweet)
        hasCapitalization == HasUpperAZ(self.tweet)
        score == 5
                 + (IF sentences >= 2 /\ sentences <= 4 THEN 2 ELSE 0)
                 + (IF hasLineBreaks /\ Len(self.tweet) > 100 THEN 1 ELSE 0)
                 + (IF hasNumbers THEN 1 ELSE 0)
                 + (IF hasCapitalization THEN 1 ELSE 0)
                 - (IF self.tweet = toLowerCase(self.tweet) THEN 2 ELSE 0)
                 - (IF self.tweet = toUpperCase(self.tweet) THEN 3 ELSE 0)
    IN [self EXCEPT !.factors.structure.score = Max(1, Min(score, 10))]

\* Object.values(this.factors).forEach(...) accumulating into the two sums
RECURSIVE SumFactors(_, _, _)
SumFactors(factors, i, acc) ==
    IF i > Len(FactorNames) THEN acc
    ELSE LET factor == factors[FactorNames[i]]
         IN SumFactors(factors, i + 1,
                       [weightedSum |-> DblAdd(acc.weightedSum, DblMulInt(factor.score, factor.weight)),
                        totalWeight |-> DblAdd(acc.totalWeight, factor.weight)])

\* returns a double: (weightedSum / totalWeight) * 10
calculateOverallScore(self) ==
    LET sums == SumFactors(self.factors, 1, [weightedSum |-> DblZero, totalWeight |-> DblZero])
    IN DblMulInt(10, DblDiv(sums.weightedSum, sums.totalWeight))

getEngagementLevel(score) ==
    IF DblAtLeast(score, 80) THEN "Very High"
    ELSE IF DblAtLeast(score, 65) THEN "High"
    ELSE IF DblAtLeast(score, 50) THEN "Medium"
    ELSE IF DblAtLeast(score, 35) THEN "Low"
    ELSE "Very Low"

getReachLevel(score) ==
    IF DblAtLeast(score, 80) THEN "Viral Potential"
    ELSE IF DblAtLeast(score, 65) THEN "High Reach"
    ELSE IF DblAtLeast(score, 50) THEN "Good Reach"
    ELSE IF DblAtLeast(score, 35) THEN "Limited Reach"
    ELSE "Low Reach"

\* variant: the opening is chosen by the rounded score, the score returned
generateDetailedAnalysis_ByRounded(self, score) ==
    LET n == MathRound(score)
        opening ==
            IF n >= 80 THEN "Excellent tweet! This has strong viral potential with great engagement factors."
            ELSE IF n >= 65 THEN "Strong tweet with good engagement potential. Minor improvements could boost performance."
            ELSE IF n >= 50 THEN "Decent tweet that should perform reasonably well. Consider the suggestions to improve reach."
            ELSE IF n >= 35 THEN "This tweet needs improvement in several areas to maximize engagement."
            ELSE "Significant improvements needed. Consider rewriting with engagement and structure in mind."
        weakFactors == SelectSeq(FactorNames, LAMBDA name : self.factors[name].score < 6)
        strongFactors == SelectSeq(FactorNames, LAMBDA name : self.factors[name].score >= 8)
    IN <<[text |-> opening, names |-> <<>>]>>
       \o (IF Len(weakFactors) > 0
           THEN <<[text |-> "Areas needing improvement: ", names |-> weakFactors]>> ELSE <<>>)
       \o (IF Len(strongFactors) > 0
           THEN <<[text |-> "Strong points: ", names |-> strongFactors]>> ELSE <<>>)

\* the narrative is the list of sentences that analyses.join(' ') glues
\* together; a sentence is its fixed text and the factor names spliced in
generateDetailedAnalysis(self, score) ==
    LET opening ==
            IF DblAtLeast(score, 80) THEN "Excellent tweet! This has strong viral potential with great engagement factors."
            ELSE IF DblAtLeast(score, 65) THEN "Strong tweet with good engagement potential. Minor improvements could boost performance."
            ELSE IF DblAtLeast(score, 50) THEN "Decent tweet that should perform reasonably well. Consider the suggestions to improve reach."
            ELSE IF DblAtLeast(score, 35) THEN "This tweet needs improvement in several areas to maximize engagement."
            ELSE "Significant improvements needed. Consider rewriting with engagement and structure in mind."
        weakFactors == SelectSeq(FactorNames, LAMBDA name : self.factors[name].score < 6)
        strongFactors == SelectSeq(FactorNames, LAMBDA name : self.factors[name].score >= 8)
    IN <<[text |-> opening, names |-> <<>>]>>
       \o (IF Len(weakFactors) > 0
           THEN <<[text |-> "Areas needing improvement: ", names |-> weakFactors]>> ELSE <<>>)
       \o (IF Len(strongFactors) > 0
           THEN <<[text |-> "Strong points: ", names |-> strongFactors]>> ELSE <<>>)

SuggestAddContext == "Consider adding more context or details to make your tweet more engaging"
SuggestShorten == "Try shortening your tweet - shorter tweets often get better engagement"
SuggestAddHashtags == "Add 1-2 relevant hashtags to increase discoverability"
SuggestReduceHashtags == "Reduce hashtags to 2-3 for better readability and engagement"
SuggestAddEmoji == "Add an emoji or two to make your tweet more visually appealing"
SuggestReduceEmoji == "Consider reducing emojis for better professional appearance"
SuggestAskQuestion == "Try asking a question or including a call-to-action to boost engagement"
SuggestAddWords == "Consider adding words like 'What do you think?' or 'Share your experience'"
SuggestPositive == "Try using more positive or exciting language to improve sentiment"
SuggestBreakUp == "Break up long sentences or add line breaks for better readability"
SuggestStory == "Consider sharing a personal story or insight to make it more relatable"
SuggestNumbers == "Try including numbers or statistics if relevant to your topic"

\* variant: the list is returned without the slice
SliceTop_NoCut(suggestions) == suggestions

\* suggestions.slice(0, 4)
SliceTop(suggestions) == SubSeq(suggestions, 1, Min(Len(suggestions), 4))

\* variant: the shortening advice is given above 225 instead of above 200
generateSuggestions_ShortenAbove225(self) ==
    LET f == self.factors
        hashtags == OrEmpty(match(self.tweet, "#\\w+"))
        hashtagCount == hashtags.length
        emojis == OrEmpty(match(self.tweet, "emoji"))
        emojiCount == emojis.length
        forLength ==
            IF f.length.score < 7
            THEN IF Len(self.tweet) < 50 THEN <<SuggestAddContext>>
                 ELSE IF Len(self.tweet) > 225 THEN <<SuggestShorten>>
                 ELSE <<>>
            ELSE <<>>
        forHashtags ==
            IF f.hashtags.score < 7
            THEN IF hashtagCount = 0 THEN <<SuggestAddHashtags>>
                 ELSE IF hashtagCount > 3 THEN <<SuggestReduceHashtags>>
                 ELSE <<>>
            ELSE <<>>
        forEmojis ==
            IF f.emojis.score < 7
            THEN IF emojiCount = 0 THEN <<SuggestAddEmoji>>
                 ELSE IF emojiCount > 3 THEN <<SuggestReduceEmoji>>
                 ELSE <<>>
            ELSE <<>>
        forEngagement ==
            IF f.engagement.score < 7 THEN <<SuggestAskQuestion, SuggestAddWords>> ELSE <<>>
        forSentiment == IF f.sentiment.score < 7 THEN <<SuggestPositive>> ELSE <<>>
        forStructure == IF f.structure.score < 7 THEN <<SuggestBreakUp>> ELSE <<>>
        general ==
            IF DblLess(calculateOverallScore(self), 60)
            THEN <<SuggestStory, SuggestNumbers>> ELSE <<>>
        suggestions == forLength \o forHashtags \o forEmojis \o forEngagement
                       \o forSentiment \o forStructure \o general
    IN [threw |-> (f.hashtags.score < 7 /\ hashtags.isNull)
                  \/ (f.emojis.score < 7 /\ emojis.isNull),
        value |-> SliceTop(suggestions)]

\* variant: the structure step comes before the sentiment step
generateSuggestions_StructureFirst(self) ==
    LET f == self.factors
        hashtags == OrEmpty(match(self.tweet, "#\\w+"))
        hashtagCount == hashtags.length
        emojis == OrEmpty(match(self.tweet, "emoji"))
        emojiCount == emojis.length
        forLength ==
            IF f.length.score < 7
            THEN IF Len(self.tweet) < 50 THEN <<SuggestAddContext>>
                 ELSE IF Len(self.tweet) > 200 THEN <<SuggestShorten>>
                 ELSE <<>>
            ELSE <<>>
        forHashtags ==
            IF f.hashtags.score < 7
            THEN IF hashtagCount = 0 THEN <<SuggestAddHashtags>>
                 ELSE IF hashtagCount > 3 THEN <<SuggestReduceHashtags>>
                 ELSE <<>>
            ELSE <<>>
        forEmojis ==
            IF f.emojis.score < 7
            THEN IF emojiCount = 0 THEN <<SuggestAddEmoji>>
                 ELSE IF emojiCount > 3 THEN <<SuggestReduceEmoji>>
                 ELSE <<>>
            ELSE <<>>
        forEngagement ==
            IF f.engagement.score < 7 THEN <<SuggestAskQuestion, SuggestAddWords>> ELSE <<>>
        forSentiment == IF f.sentiment.score < 7 THEN <<SuggestPositive>> ELSE <<>>
        forStructure == IF f.structure.score < 7 THEN <<SuggestBreakUp>> ELSE <<>>
        general ==
            IF DblLess(calculateOverallScore(self), 60)
            THEN <<SuggestStory, SuggestNumbers>> ELSE <<>>
        suggestions == forLength \o forHashtags \o forEmojis \o forEngagement
                       \o forStructure \o forSentiment \o general
    IN [threw |-> (f.hashtags.score < 7 /\ hashtags.isNull)
                  \/ (f.emojis.score < 7 /\ emojis.isNull),
        value |-> SliceTop(suggestions)]

\* variant: the two fallbacks are given below 50 instead of below 60
generateSuggestions_FallbackBelow50(self) ==
    LET f == self.factors
        hashtags == OrEmpty(match(self.tweet, "#\\w+"))
        hashtagCount == hashtags.length
        emojis == OrEmpty(match(self.tweet, "emoji"))
        emojiCount == emojis.length
        forLength ==
            IF f.length.score < 7
            THEN IF Len(self.tweet) < 50 THEN <<SuggestAddContext>>
                 ELSE IF Len(self.tweet) > 200 THEN <<SuggestShorten>>
                 ELSE <<>>
            ELSE <<>>
        forHashtags ==
            IF f.hashtags.score < 7
            THEN IF hashtagCount = 0 THEN <<SuggestAddHashtags>>
                 ELSE IF hashtagCount > 3 THEN <<SuggestReduceHashtags>>
                 ELSE <<>>
            ELSE <<>>
        forEmojis ==
            IF f.emojis.score < 7
            THEN IF emojiCount = 0 THEN <<SuggestAddEmoji>>
                 ELSE IF emojiCount > 3 THEN <<SuggestReduceEmoji>>
                 ELSE <<>>
            ELSE <<>>
        forEngagement ==
            IF f.engagement.score < 7 THEN <<SuggestAskQuestion, SuggestAddWords>> ELSE <<>>
        forSentiment == IF f.sentiment.score < 7 THEN <<SuggestPositive>> ELSE <<>>
        forStructure == IF f.structure.score < 7 THEN <<SuggestBreakUp>> ELSE <<>>
        general ==
            IF DblLess(calculateOverallScore(self), 50)
            THEN <<SuggestStory, SuggestNumbers>> ELSE <<>>
        suggestions == forLength \o forHashtags \o forEmojis \o forEngagement
                       \o forSentiment \o forStructure \o general
    IN [threw |-> (f.hashtags.score < 7 /\ hashtags.isNull)
                  \/ (f.emojis.score < 7 /\ emojis.isNull),
        value |-> SliceTop(suggestions)]

\* returns [threw, value]: value is the list of suggestions
generateSuggestions(self) ==
    LET f == self.factors
        hashtags == OrEmpty(match(self.tweet, "#\\w+"))
        hashtagCount == hashtags.length
        emojis == OrEmpty(match(self.tweet, "emoji"))
        emojiCount == emojis.length
        forLength ==
            IF f.length.score < 7
            THEN IF Len(self.tweet) < 50 THEN <<SuggestAddContext>>
                 ELSE IF Len(self.tweet) > 200 THEN <<SuggestShorten>>
                 ELSE <<>>
            ELSE <<>>
        forHashtags ==
            IF f.hashtags.score < 7
            THEN IF hashtagCount = 0 THEN <<SuggestAddHashtags>>
                 ELSE IF hashtagCount > 3 THEN <<SuggestReduceHashtags>>
                 ELSE <<>>
            ELSE <<>>
        forEmojis ==
            IF f.emojis.score < 7
            THEN IF emojiCount = 0 THEN <<SuggestAddEmoji>>
                 ELSE IF emojiCount > 3 THEN <<SuggestReduceEmoji>>
                 ELSE <<>>
            ELSE <<>>
        forEngagement ==
            IF f.engagement.score < 7 THEN <<SuggestAskQuestion, SuggestAddWords>> ELSE <<>>
        forSentiment == IF f.sentiment.score < 7 THEN <<SuggestPositive>> ELSE <<>>
        forStructure == IF f.structure.score < 7 THEN <<SuggestBreakUp>> ELSE <<>>
        general ==
            IF DblLess(calculateOverallScore(self), 60)
            THEN <<SuggestStory, SuggestNumbers>> ELSE <<>>
        suggestions == forLength \o forHashtags \o forEmojis \o forEngagement
                       \o forSentiment \o forStructure \o general
    IN [threw |-> (f.hashtags.score < 7 /\ hashtags.isNull)
                  \/ (f.emojis.score < 7 /\ emojis.isNull),
        value |-> SliceTop(suggestions)]

TimeMorning == "9:00 AM - 10:00 AM (Peak morning engagement)"
TimeLunch == "12:00 PM - 1:00 PM (Lunch break peak)"
TimeAfternoon == "3:00 PM - 4:00 PM (Afternoon engagement)"
TimeEvening == "7:00 PM - 9:00 PM (Evening social media peak)"

\* variant: the hashtag test is made before the question test
getOptimalPostingTime_HashtagFirst(self) ==
    LET times == <<TimeMorning, TimeLunch, TimeAfternoon, TimeEvening>>
        hashtags == OrEmpty(match(self.tweet, "#\\w+"))
        hasHashtags == hashtags.length > 0
        isQuestion == includes(self.tweet, <<63>>)
    IN [threw |-> hashtags.isNull,
        value |-> IF hasHashtags THEN times[2]
                  ELSE IF isQuestion THEN times[4]
                  ELSE times[1]]

\* returns [threw, value]: value is the chosen slot
getOptimalPostingTime(self) ==
    LET times == <<TimeMorning, TimeLunch, TimeAfternoon, TimeEvening>>
        hashtags == OrEmpty(match(self.tweet, "#\\w+"))
        hasHashtags == hashtags.length > 0
        isQuestion == includes(self.tweet, <<63>>)
    IN [threw |-> hashtags.isNull,
        value |-> IF isQuestion THEN times[4]          \* times[3]
                  ELSE IF hasHashtags THEN times[2]    \* times[1]
                  ELSE times[1]]                       \* times[0]

NoResult == [score |-> -1]

\* the i-th of the six analyzer calls that open analyze()
RunFactor(self, i) ==
    CASE i = 1 -> analyzeLengthFactor(self)
      [] i = 2 -> analyzeHashtagFactor(self)
      [] i = 3 -> analyzeEmojiFactor(self)
      [] i = 4 -> analyzeEngagementFactor(self)
      [] i = 5 -> analyzeSentimentFactor(self)
      [] i = 6 -> analyzeStructureFactor(self)

\* the six calls in order; a call that raises ends analyze(), the later ones
\* do not run
RECURSIVE RunFactors(_, _)
RunFactors(self, i) ==
    IF i > 6 \/ self.threw THEN self ELSE RunFactors(RunFactor(self, i), i + 1)

\* the object analyze() returns; generateDetailedAnalysis cannot raise,
\* generateSuggestions and getOptimalPostingTime are evaluated after it
ReturnValue(self, score, suggestions, optimalTime) ==
    IF suggestions.threw \/ optimalTime.threw THEN NoResult
    ELSE [score |-> MathRound(score),
          engagement |-> getEngagementLevel(score),
          reach |-> getReachLevel(score),
          analysis |-> generateDetailedAnalysis(self, score),
          suggestions |-> suggestions.value,
          optimalTime |-> optimalTime.value,
          factors |-> self.factors]

\* what a call of analyze() leaves behind
Outcome(self, value) ==
    [self |-> [self EXCEPT !.threw = (value = NoResult)],
     threw |-> value = NoResult,
     result |-> value]

\* the second half of analyze(), on the analyzer as the six calls left it
Finish(self) ==
    IF self.threw THEN [self |-> self, threw |-> TRUE, result |-> NoResult]
    ELSE Outcome(self, ReturnValue(self, calculateOverallScore(self),
                                   generateSuggestions(self), getOptimalPostingTime(self)))

\* analyze(): returns the analyzer as the call leaves it, whether the call
\* raised, and the returned object
analyze(self) == Finish(RunFactors(self, 1))

(***************************************************************************)
(* The texts the engine is run on.  A text is an opening phrase, filled up *)
(* with the letter x to one of the lengths at which the Length bands       *)
(* change, followed by a mark typed up to MaxRepeat times.                 *)
(***************************************************************************)
Openings == {
    \* the empty text
    <<>>,
    \* second demo tweet of loadDemo
    <<72, 97, 100, 32, 98, 114, 101, 97, 107, 102, 97, 115, 116, 32, 116, 104,
      105, 115, 32, 109, 111, 114, 110, 105, 110, 103, 46, 32, 73, 116, 32,
      119, 97, 115, 32, 111, 107, 97, 121, 32, 73, 32, 103, 117, 101, 115,
      115, 46>>,
    \* first demo tweet of loadDemo (with U+1F680)
    <<74, 117, 115, 116, 32, 108, 97, 117, 110, 99, 104, 101, 100, 32, 109,
      121, 32, 115, 105, 100, 101, 32, 112, 114, 111, 106, 101, 99, 116, 32,
      97, 102, 116, 101, 114, 32, 54, 32, 109, 111, 110, 116, 104, 115, 32,
      111, 102, 32, 108, 97, 116, 101, 32, 110, 105, 103, 104, 116, 115, 33,
      32, 55357, 56960, 32, 73, 116, 39, 115, 32, 97, 32, 115, 105, 109, 112,
      108, 101, 32, 116, 111, 111, 108, 32, 116, 104, 97, 116, 32, 115, 111,
      108, 118, 101, 115, 32, 97, 32, 112, 114, 111, 98, 108, 101, 109, 32,
      73, 32, 104, 97, 100, 32, 100, 97, 105, 108, 121, 46, 32, 83, 111, 109,
      101, 116, 105, 109, 101, 115, 32, 116, 104, 101, 32, 98, 101, 115, 116,
      32, 105, 100, 101, 97, 115, 32, 99, 111, 109, 101, 32, 102, 114, 111,
      109, 32, 121, 111, 117, 114, 32, 111, 119, 110, 32, 102, 114, 117, 115,
      116, 114, 97, 116, 105, 111, 110, 115, 46, 32, 87, 104, 97, 116, 32,
      112, 114, 111, 98, 108, 101, 109, 32, 97, 114, 101, 32, 121, 111, 117,
      32, 115, 111, 108, 118, 105, 110, 103, 63, 32, 35, 66, 117, 105, 108,
      100, 73, 110, 80, 117, 98, 108, 105, 99>>,
    \* "What do you think"
    <<87, 104, 97, 116, 32, 100, 111, 32, 121, 111, 117, 32, 116, 104, 105,
      110, 107>>,
    \* "I love this amazing day"
    <<73, 32, 108, 111, 118, 101, 32, 116, 104, 105, 115, 32, 97, 109, 97,
      122, 105, 110, 103, 32, 100, 97, 121>>,
    \* "worst problem ever"
    <<119, 111, 114, 115, 116, 32, 112, 114, 111, 98, 108, 101, 109, 32, 101,
      118, 101, 114>>,
    \* "GREAT NEWS"
    <<71, 82, 69, 65, 84, 32, 78, 69, 87, 83>>,
    \* "Win 7 "
    <<87, 105, 110, 32, 55, 32>>,
    \* "check out how we see it. "
    <<99, 104, 101, 99, 107, 32, 111, 117, 116, 32, 104, 111, 119, 32, 119,
      101, 32, 115, 101, 101, 32, 105, 116, 46, 32>>,
    \* "One. Two. Three"
    <<79, 110, 101, 46, 32, 84, 119, 111, 46, 32, 84, 104, 114, 101, 101>>,
    \* a, line feed, b
    <<97, 10, 98>>,
    \* U+1D4B3, outside the Basic Multilingual Plane and no emoji
    <<55349, 56499>>,
    \* "hate it! #fail "
    <<104, 97, 116, 101, 32, 105, 116, 33, 32, 35, 102, 97, 105, 108, 32>>,
    \* "Love it? Amazing! #ai 1 "
    <<76, 111, 118, 101, 32, 105, 116, 63, 32, 65, 109, 97, 122, 105, 110,
      103, 33, 32, 35, 97, 105, 32, 49, 32>>,
    \* U+2600 and no letter
    <<9728, 32, 49, 50, 58, 51, 48>>,
    \* "What do you think? I love it"
    <<87, 104, 97, 116, 32, 100, 111, 32, 121, 111, 117, 32, 116, 104, 105,
      110, 107, 63, 32, 73, 32, 108, 111, 118, 101, 32, 105, 116>>,
    \* "worst Hate 7 #a #b #c ", three times U+1F680, and a blank
    <<119, 111, 114, 115, 116, 32, 72, 97, 116, 101, 32, 55, 32, 35, 97,
      32, 35, 98, 32, 35, 99, 32, 55357, 56960, 55357, 56960, 55357, 56960, 32>>
}

Marks == {
    <<35, 97, 105, 32>>,    \* "#ai "
    <<55357, 56960>>,    \* U+1F680 as its surrogate pair
    <<33>>,    \* "!"
    <<63>>    \* "?"
}

\* the lengths a text is filled up to: none, both sides of every band edge
\* of analyzeLengthFactor and of the 50 / 200 tests of generateSuggestions,
\* and a length beyond the 280 limit
FillStops == {0, 29, 30, 49, 50, 70, 71, 100, 101, 140, 141, 200, 201, 250, 251, MaxPad}

Repeated(m, k) == [i \in 1..(k * Len(m)) |-> m[((i - 1) % Len(m)) + 1]]
Closings == {<<>>} \cup {Repeated(m, k) : m \in Marks, k \in 1..MaxRepeat}

\* opening, then x up to length n, then closing
Compose(o, n, c) == o \o [i \in 1..(n - Len(o)) |-> 120] \o c

Tweets == {Compose(o, n, c) : o \in Openings, n \in FillStops, c \in Closings}

\* texts in capitals only and texts in both cases, short and longer than 100
CaseTweets == {
    \* "WIN 7 "
    <<87, 73, 78, 32, 55, 32>>,
    \* "GREAT NEWS"
    <<71, 82, 69, 65, 84, 32, 78, 69, 87, 83>>,
    \* "Great News"
    <<71, 114, 101, 97, 116, 32, 78, 101, 119, 115>>,
    \* "A. B! 7", line feed, then 100 times X
    <<65, 46, 32, 66, 33, 32, 55, 10>> \o [i \in 1..100 |-> 88],
    \* "a. B! 7", line feed, then 100 times X
    <<97, 46, 32, 66, 33, 32, 55, 10>> \o [i \in 1..100 |-> 88]
}

\* the texts that are analysed side by side
CompareTweets ==
    {Compose(o, n, <<>>) : o \in {<<>>, <<87, 105, 110, 32, 55, 32>>}, n \in FillStops}
        \cup CaseTweets

(***************************************************************************)
(* State                                                                   *)
(***************************************************************************)
VARIABLES
    analyzer,       \* a TweetAnalyzer object: its tweet and its factors
    calls,          \* how many times analyze() was called on it
    outcome,        \* of the last call: "none", "returned" or "threw"
    result,         \* the object the last call returned
    first,          \* the object the first call returned
    other,          \* a second TweetAnalyzer object
    otherOutcome,   \* outcome of analyze() on the second object
    otherResult,    \* the object it returned
    state,          \* TweetPredictor.state: currentUser, userProfile, ...
    tweetInput,     \* what the input element holds
    console,        \* the last message shown: showMessage(null, ...) or the sign-in dialog
    user_profiles,  \* the row of the account in table user_profiles
    tweet_analyses, \* how many rows of the account table tweet_analyses holds for today
    usage_logs,     \* how many rows of the account table usage_logs holds
    started,        \* how many calls of analyzeTweet() were made
    invocations,    \* the calls of analyzeTweet() that have not returned: a bag of
                    \* records, each the place the call stands at and its locals
    carriedOut,     \* how many analyses were carried out for the account in the period
    now,            \* what Date.now() returns, in milliseconds
    attempts,       \* RateLimiter.attempts: for each identifier, the recorded times
    logins,         \* the calls of handleLogin() that await the sign-in: a bag of
                    \* records, each the identifier and the time the call was made
    loginStarted,   \* how many calls of handleLogin() were made
    loginMessage,   \* what the last call of handleLogin() showed in #loginMessage
    failedCalls     \* for each identifier, the times at which the sign-in calls that
                    \* failed were made: a bag

engineVars == <<analyzer, calls, outcome, result, first, other, otherOutcome, otherResult>>
appVars == <<state, tweetInput, console, user_profiles, tweet_analyses, usage_logs,
            started, invocations, carriedOut>>
loginVars == <<now, attempts, logins, loginStarted, loginMessage, failedCalls>>
vars == <<engineVars, appVars, loginVars>>

\* how many calls of analyzeTweet() are followed
MaxInvocations == 2

\* how many analyses a pack holds when it is bought
MaxCredits == 2

\* this.config.maxTweetLength
maxTweetLength == 280

\* the daily allowance of the free plan in canPerformAnalysis
FreeDailyLimit == 3

\* null, where a row of user_profiles is expected
NoProfile == [plan_type |-> "none", pack_analyses_remaining |-> 0, total_analyses_used |-> 0]

\* a call of analyzeTweet() at its first await, with its locals: tweet, the
\* profile read by consumeAnalysisCredit, and analysis
NewCall(tweet) ==
    [pc |-> "canPerformAnalysis", tweet |-> tweet, profile |-> NoProfile,
     engine |-> "none", analysis |-> NoResult]

\* the identifiers the rate limiter is asked about: "a@b.co"
Identifiers == {<<97, 64, 98, 46, 99, 111>>}

\* the login form right after construction: new RateLimiter(5, 15 * 60 * 1000)
\* with an empty map (get(identifier) || [] reads an empty list), no call
\* under way, nothing shown
LoginAtRest ==
    /\ now = 0
    /\ attempts = [identifier \in Identifiers |-> <<>>]
    /\ logins = EmptyBag
    /\ loginStarted = 0
    /\ loginMessage = [text |-> "none", identifier |-> <<>>, n |-> 0]
    /\ failedCalls = [identifier \in Identifiers |-> EmptyBag]

\* the page right after construction, nobody signed in, and no account
PageAtRest ==
    /\ state = [currentUser |-> "null", userProfile |-> NoProfile,
                analysisHistory |-> 0, isAnalyzing |-> FALSE]
    /\ tweetInput = [present |-> TRUE, value |-> <<>>]
    /\ console = "none"
    /\ user_profiles = NoProfile
    /\ tweet_analyses = 0
    /\ usage_logs = 0
    /\ started = 0
    /\ invocations = EmptyBag
    /\ carriedOut = 0
    /\ LoginAtRest

\* how many times analyze() is called on one object
MaxCalls == 2

\* one analyzer, constructed on any of the texts
Init ==
    /\ analyzer \in {TweetAnalyzer(t) : t \in Tweets}
    /\ calls = 0
    /\ outcome = "none"
    /\ result = NoResult
    /\ first = NoResult
    /\ other = TweetAnalyzer(<<>>)
    /\ otherOutcome = "none"
    /\ otherResult = NoResult
    /\ PageAtRest

\* two analyzers, each constructed on any of the texts compared
InitCompare ==
    /\ analyzer \in {TweetAnalyzer(t) : t \in CompareTweets}
    /\ other \in {TweetAnalyzer(t) : t \in CompareTweets}
    /\ calls = 0
    /\ outcome = "none"
    /\ result = NoResult
    /\ first = NoResult
    /\ otherOutcome = "none"
    /\ otherResult = NoResult
    /\ PageAtRest

\* analyzer.analyze()
Analyze ==
    /\ calls < MaxCalls
    /\ \E a \in {analyze(analyzer)} :
          /\ analyzer' = a.self
          /\ outcome' = IF a.threw THEN "threw" ELSE "returned"
          /\ result' = IF a.threw THEN result ELSE a.result
          /\ first' = IF calls = 0 /\ ~a.threw THEN a.result ELSE first
    /\ calls' = calls + 1
    /\ UNCHANGED <<other, otherOutcome, otherResult, appVars, loginVars>>

\* other.analyze(), once the first object has been analysed
AnalyzeOther ==
    /\ calls >= 1
    /\ otherOutcome = "none"
    /\ \E a \in {analyze(other)} :
          /\ other' = a.self
          /\ otherOutcome' = IF a.threw THEN "threw" ELSE "returned"
          /\ otherResult' = IF a.threw THEN otherResult ELSE a.result
    /\ UNCHANGED <<analyzer, calls, outcome, result, first, appVars, loginVars>>

Next == Analyze

Spec == Init /\ [][Next]_vars

NextCompare == Analyze \/ AnalyzeOther

SpecCompare == InitCompare /\ [][NextCompare]_vars

(***************************************************************************)
(* The page: TweetPredictor.analyzeTweet and the database helpers it       *)
(* awaits.  A call runs from one await to the next in one step; the reply  *)
(* of the database to each request is data or an error.                    *)
(***************************************************************************)
MsgShowAuthModal == "showAuthModal"
MsgInvalid == "Please enter a valid tweet"
MsgCheckError == "Error checking analysis limit"
MsgLimit == "Analysis limit reached!"
MsgFreeLimit == "Daily limit reached! You can analyze 3 tweets per day on the free plan."
MsgPackLimit == "Pack analyses exhausted! Please purchase another pack or upgrade to Pro."

\* what supabase answers to a request: { data, error } with one of them set
Replies == {"data", "error"}

\* String.prototype.trim()
trim(s) ==
    LET keep == {i \in 1..Len(s) : ~IsTrimSpace(s[i])}
    IN IF keep = {} THEN <<>>
       ELSE SubSeq(s, CHOOSE i \in keep : \A j \in keep : i <= j,
                      CHOOSE i \in keep : \A j \in keep : i >= j)

\* this.elements.tweetInput?.value?.trim(): undefined when there is no input
\* element, which the model writes as present = FALSE
TrimmedInput(input) ==
    [present |-> input.present, value |-> IF input.present THEN trim(input.value) ELSE <<>>]

\* variant: the test of the length is missing, if (!tweet)
IsValidTweet_NoLimit(tweet) == tweet.present /\ tweet.value # <<>>

\* the negation of (!tweet || tweet.length > this.config.maxTweetLength)
IsValidTweet(tweet) ==
    tweet.present /\ tweet.value # <<>> /\ Len(tweet.value) <= maxTweetLength

\* what the input element may hold when analyzeTweet() is called
AppInputs ==
    {[present |-> FALSE, value |-> <<>>]}
    \cup {[present |-> TRUE, value |-> v] : v \in {
            <<>>,
            \* two blanks
            <<32, 32>>,
            \* " Win 7 ", a text between blanks
            <<32, 87, 105, 110, 32, 55, 32>>,
            \* as many x as a tweet may have, and a blank
            [k \in 1..(maxTweetLength + 1) |-> IF k <= maxTweetLength THEN 120 ELSE 32],
            \* one x more than a tweet may have
            [k \in 1..(maxTweetLength + 1) |-> 120]}}

\* finally { this.state.isAnalyzing = false; ... }
Finally(s) == [s EXCEPT !.isAnalyzing = FALSE]

\* the call c goes on as c2 / the call c returns
Becomes(c, c2) == invocations' = (invocations (-) SetToBag({c})) (+) SetToBag({c2})
Returns(c) == invocations' = invocations (-) SetToBag({c})

\* variant: the call refuses inside the try block, so that the finally block
\* runs on its way out
Refuse_InsideTry(c, message) ==
    /\ Returns(c)
    /\ console' = message
    /\ state' = Finally(state)
    /\ UNCHANGED <<user_profiles, tweet_analyses, usage_logs, carriedOut>>

\* the call shows a message and returns before the try block
Refuse(c, message) ==
    /\ Returns(c)
    /\ console' = message
    /\ UNCHANGED <<state, user_profiles, tweet_analyses, usage_logs, carriedOut>>

\* canUserAnalyze() answered allowed: the try block up to its first await.
\* isAnalyzing is set, the engine runs on the trimmed text, and
\* consumeAnalysisCredit(this.state.currentUser.id) asks for the profile; an
\* exception (from the engine, or from reading id of null) is caught
Proceed(c) ==
    /\ \E a \in {analyze(TweetAnalyzer(c.tweet))} :
          IF a.threw \/ state.currentUser = "null"
          THEN /\ Returns(c)
               /\ state' = Finally(state)
          ELSE /\ Becomes(c, [c EXCEPT !.pc = "consumeAnalysisCredit",
                                       !.engine = "returned",
                                       !.analysis = a.result])
               /\ state' = [state EXCEPT !.isAnalyzing = TRUE]
    /\ UNCHANGED <<console, user_profiles, tweet_analyses, usage_logs, carriedOut>>

\* analyzeTweet() up to its first await
Start ==
    /\ started < MaxInvocations
    /\ started' = started + 1
    /\ LET tweet == TrimmedInput(tweetInput)
       IN IF state.currentUser = "null"
          THEN /\ console' = MsgShowAuthModal
               /\ UNCHANGED invocations
          ELSE IF ~IsValidTweet(tweet)
          THEN /\ console' = MsgInvalid
               /\ UNCHANGED invocations
          ELSE /\ invocations' = invocations (+) SetToBag({NewCall(tweet.value)})
               /\ UNCHANGED console
    /\ UNCHANGED <<state, user_profiles, tweet_analyses, usage_logs, carriedOut>>

\* dbHelpers.canPerformAnalysis: getUserProfile has answered
CanPerformAnalysis(c) ==
    /\ c.pc = "canPerformAnalysis"
    /\ \E reply \in Replies :
          IF reply = "error" \/ user_profiles = NoProfile
          THEN Refuse(c, MsgCheckError)
          ELSE IF user_profiles.plan_type = "free"
          THEN /\ Becomes(c, [c EXCEPT !.pc = "countToday"])
               /\ UNCHANGED <<state, console, user_profiles, tweet_analyses,
                              usage_logs, carriedOut>>
          ELSE IF user_profiles.plan_type = "pack"
          THEN IF user_profiles.pack_analyses_remaining > 0
               THEN Proceed(c)
               ELSE Refuse(c, MsgPackLimit)
          ELSE IF user_profiles.plan_type = "pro"
          THEN Proceed(c)
          ELSE Refuse(c, MsgCheckError)

\* dbHelpers.canPerformAnalysis, free plan: the count of today's rows of
\* tweet_analyses has answered
CountToday(c) ==
    /\ c.pc = "countToday"
    /\ \E reply \in Replies :
          IF reply = "error"
          THEN Refuse(c, MsgCheckError)
          ELSE IF FreeDailyLimit - tweet_analyses > 0
          THEN Proceed(c)
          ELSE Refuse(c, MsgFreeLimit)

\* consumeAnalysisCredit has returned: saveAnalysisToDatabase asks for the
\* insert.  With nobody signed in it returns at once, the results are
\* displayed, the two loads return at once and reading
\* this.state.currentUser.id for logUserAction throws
ToSave(c) ==
    IF state.currentUser = "null"
    THEN /\ Returns(c)
         /\ carriedOut' = carriedOut + 1
         /\ state' = Finally(state)
    ELSE /\ Becomes(c, [c EXCEPT !.pc = "saveTweetAnalysis"])
         /\ UNCHANGED <<state, carriedOut>>

\* dbHelpers.consumeAnalysisCredit: getUserProfile has answered
ConsumeAnalysisCredit(c) ==
    /\ c.pc = "consumeAnalysisCredit"
    /\ \E reply \in Replies :
          IF reply = "error" \/ user_profiles = NoProfile
          THEN ToSave(c)
          ELSE /\ Becomes(c, [c EXCEPT !.pc = "updateCredit", !.profile = user_profiles])
               /\ UNCHANGED <<state, carriedOut>>
    /\ UNCHANGED <<console, user_profiles, tweet_analyses, usage_logs>>

\* dbHelpers.consumeAnalysisCredit: the update, computed from the profile
\* that was read, has answered
UpdateCredit(c) ==
    /\ c.pc = "updateCredit"
    /\ \E reply \in Replies :
          user_profiles' =
              IF reply = "error" THEN user_profiles
              ELSE IF c.profile.plan_type = "pack"
              THEN [user_profiles EXCEPT
                       !.pack_analyses_remaining = Max(0, c.profile.pack_analyses_remaining - 1),
                       !.total_analyses_used = c.profile.total_analyses_used + 1]
              ELSE [user_profiles EXCEPT
                       !.total_analyses_used = c.profile.total_analyses_used + 1]
    /\ ToSave(c)
    /\ UNCHANGED <<console, tweet_analyses, usage_logs>>

\* table public.tweet_analyses: the values its CHECK constraints allow in
\* engagement_level and in reach_level
EngagementLevelCheck == {"Low", "Medium", "High", "Very High"}
ReachLevelCheck == {"Limited", "Moderate", "Good", "Excellent"}

\* the object saveAnalysisToDatabase builds from the text and the result
AnalysisData(tweet, analysis) ==
    [tweetContent |-> tweet,
     overallScore |-> analysis.score,
     engagementLevel |-> analysis.engagement,
     reachLevel |-> analysis.reach,
     detailedAnalysis |-> analysis.analysis,
     suggestions |-> analysis.suggestions,
     optimalPostingTime |-> analysis.optimalTime,
     metadata |-> [factors |-> analysis.factors]]

\* the row dbHelpers.saveTweetAnalysis asks to insert
InsertedRow(userId, analysisData) ==
    [user_id |-> userId,
     tweet_content |-> analysisData.tweetContent,
     overall_score |-> analysisData.overallScore,
     engagement_level |-> analysisData.engagementLevel,
     reach_level |-> analysisData.reachLevel,
     detailed_analysis |-> analysisData.detailedAnalysis,
     suggestions |-> analysisData.suggestions,
     optimal_posting_time |-> analysisData.optimalPostingTime,
     metadata |-> analysisData.metadata]

\* the three CHECK constraints of the table on a row
TableAccepts(row) ==
    /\ row.overall_score >= 0 /\ row.overall_score <= 100
    /\ row.engagement_level \in EngagementLevelCheck
    /\ row.reach_level \in ReachLevelCheck

\* saveAnalysisToDatabase: the insert has answered, with the new row or with
\* an error (which is logged and dropped); displayResults; loadUserProfile
\* asks for the profile
SaveTweetAnalysis(c) ==
    /\ c.pc = "saveTweetAnalysis"
    /\ \E reply \in Replies :
          tweet_analyses' = IF reply = "data" THEN tweet_analyses + 1 ELSE tweet_analyses
    /\ carriedOut' = carriedOut + 1
    /\ IF state.currentUser = "null"
       THEN /\ Returns(c)
            /\ state' = Finally(state)
       ELSE /\ Becomes(c, [c EXCEPT !.pc = "loadUserProfile"])
            /\ UNCHANGED state
    /\ UNCHANGED <<console, user_profiles, usage_logs>>

\* loadUserProfile: getUserProfile has answered; loadAnalysisHistory asks
\* for the history
LoadUserProfile(c) ==
    /\ c.pc = "loadUserProfile"
    /\ \E reply \in Replies :
          LET loaded == IF reply = "data"
                        THEN [state EXCEPT !.userProfile = user_profiles]
                        ELSE state
          IN IF state.currentUser = "null"
             THEN /\ Returns(c)
                  /\ state' = Finally(loaded)
             ELSE /\ Becomes(c, [c EXCEPT !.pc = "loadAnalysisHistory"])
                  /\ state' = loaded
    /\ UNCHANGED <<console, user_profiles, tweet_analyses, usage_logs, carriedOut>>

\* loadAnalysisHistory: getAnalysisHistory(id, 10) has answered; logUserAction
\* asks for the insert
LoadAnalysisHistory(c) ==
    /\ c.pc = "loadAnalysisHistory"
    /\ \E reply \in Replies :
          LET loaded == IF reply = "data"
                        THEN [state EXCEPT !.analysisHistory = Min(tweet_analyses, 10)]
                        ELSE state
          IN IF state.currentUser = "null"
             THEN /\ Returns(c)
                  /\ state' = Finally(loaded)
             ELSE /\ Becomes(c, [c EXCEPT !.pc = "logUserAction"])
                  /\ state' = loaded
    /\ UNCHANGED <<console, user_profiles, tweet_analyses, usage_logs, carriedOut>>

\* logUserAction: the insert has answered; the finally block
LogUserAction(c) ==
    /\ c.pc = "logUserAction"
    /\ \E reply \in Replies :
          usage_logs' = IF reply = "data" THEN usage_logs + 1 ELSE usage_logs
    /\ Returns(c)
    /\ state' = Finally(state)
    /\ UNCHANGED <<console, user_profiles, tweet_analyses, carriedOut>>

\* an account on any plan, part of its allowance already used, a page with
\* its user signed in (profile and history loaded) or with nobody signed in,
\* and a text typed into the input element
InitApp ==
    /\ analyzer = TweetAnalyzer(<<>>)
    /\ calls = 0
    /\ outcome = "none"
    /\ result = NoResult
    /\ first = NoResult
    /\ other = TweetAnalyzer(<<>>)
    /\ otherOutcome = "none"
    /\ otherResult = NoResult
    /\ \E plan \in {"free", "pack", "pro"}, used \in 0..Max(FreeDailyLimit, MaxCredits) :
          /\ plan = "free" => used <= FreeDailyLimit
          /\ plan = "pack" => used <= MaxCredits
          /\ plan = "pro" => used = 0
          /\ user_profiles =
                 [plan_type |-> plan,
                  pack_analyses_remaining |-> IF plan = "pack" THEN MaxCredits - used ELSE 0,
                  total_analyses_used |-> used]
          /\ tweet_analyses = IF plan = "free" THEN used ELSE 0
          /\ carriedOut = used
    /\ LoginAtRest
    /\ usage_logs = 0
    /\ tweetInput \in AppInputs
    /\ console = "none"
    /\ started = 0
    /\ invocations = EmptyBag
    /\ state \in {[currentUser |-> "null", userProfile |-> NoProfile,
                   analysisHistory |-> 0, isAnalyzing |-> FALSE],
                  [currentUser |-> "user", userProfile |-> user_profiles,
                   analysisHistory |-> tweet_analyses, isAnalyzing |-> FALSE]}

\* a step of a call of analyzeTweet() after its first await: one action per
\* await
Call(c) ==
    /\ \/ CanPerformAnalysis(c)
       \/ CountToday(c)
       \/ ConsumeAnalysisCredit(c)
       \/ UpdateCredit(c)
       \/ SaveTweetAnalysis(c)
       \/ LoadUserProfile(c)
       \/ LoadAnalysisHistory(c)
       \/ LogUserAction(c)
    /\ UNCHANGED started

NextApp ==
    /\ Start \/ \E c \in BagToSet(invocations) : Call(c)
    /\ UNCHANGED <<engineVars, tweetInput, loginVars>>

SpecApp == InitApp /\ [][NextApp]_vars

(***************************************************************************)
(* The session: the handlers of the sign-in and the sign-out event, which  *)
(* may arrive at any await of any call under way.                          *)
(***************************************************************************)
\* handleSupabaseSignIn(user) up to its first await: currentUser is set and
\* loadUserProfile asks for the profile
handleSupabaseSignIn ==
    /\ started < MaxInvocations
    /\ started' = started + 1
    /\ state' = [state EXCEPT !.currentUser = "user"]
    /\ invocations' = invocations
                      (+) SetToBag({[NewCall(<<>>) EXCEPT !.pc = "signIn.loadUserProfile"]})
    /\ UNCHANGED <<console, user_profiles, tweet_analyses, usage_logs, carriedOut>>

\* handleSupabaseSignIn: getUserProfile has answered and the profile is
\* stored; loadAnalysisHistory returns at once when nobody is signed in any
\* more, otherwise it asks for the history
SignInLoadUserProfile(c) ==
    /\ c.pc = "signIn.loadUserProfile"
    /\ \E reply \in Replies :
          state' = IF reply = "data"
                   THEN [state EXCEPT !.userProfile = user_profiles]
                   ELSE state
    /\ Becomes(c, [c EXCEPT !.pc = IF state.currentUser = "null"
                                   THEN "signIn.logUserAction"
                                   ELSE "signIn.loadAnalysisHistory"])
    /\ UNCHANGED <<console, user_profiles, tweet_analyses, usage_logs, carriedOut>>

\* handleSupabaseSignIn: getAnalysisHistory(id, 10) has answered and the
\* history is stored; logUserAction(user.id, 'sign_in') asks for the insert
SignInLoadAnalysisHistory(c) ==
    /\ c.pc = "signIn.loadAnalysisHistory"
    /\ \E reply \in Replies :
          state' = IF reply = "data"
                   THEN [state EXCEPT !.analysisHistory = Min(tweet_analyses, 10)]
                   ELSE state
    /\ Becomes(c, [c EXCEPT !.pc = "signIn.logUserAction"])
    /\ UNCHANGED <<console, user_profiles, tweet_analyses, usage_logs, carriedOut>>

\* handleSupabaseSignIn: the insert into usage_logs has answered
SignInLogUserAction(c) ==
    /\ c.pc = "signIn.logUserAction"
    /\ \E reply \in Replies :
          usage_logs' = IF reply = "data" THEN usage_logs + 1 ELSE usage_logs
    /\ Returns(c)
    /\ UNCHANGED <<state, console, user_profiles, tweet_analyses, carriedOut>>

\* handleSupabaseSignOut(): it has no await
handleSupabaseSignOut ==
    /\ started < MaxInvocations
    /\ started' = started + 1
    /\ state' = [state EXCEPT !.currentUser = "null",
                              !.userProfile = NoProfile,
                              !.analysisHistory = 0]
    /\ UNCHANGED <<invocations, console, user_profiles, tweet_analyses, usage_logs,
                   carriedOut>>

\* a step of a call of handleSupabaseSignIn after its first await
SignInStep(c) ==
    /\ \/ SignInLoadUserProfile(c)
       \/ SignInLoadAnalysisHistory(c)
       \/ SignInLogUserAction(c)
    /\ UNCHANGED started

NextSession ==
    /\ \/ Start
       \/ handleSupabaseSignIn
       \/ handleSupabaseSignOut
       \/ \E c \in BagToSet(invocations) : Call(c)
       \/ \E c \in BagToSet(invocations) : SignInStep(c)
    /\ UNCHANGED <<engineVars, tweetInput, loginVars>>

SpecSession == InitApp /\ [][NextSession]_vars

(***************************************************************************)
(* The login form of index.html: class RateLimiter and                     *)
(* TweetPredictor.handleLogin.  A call of handleLogin runs up to its await *)
(* of the sign-in in one step and reads the clock once in it; the sign-in  *)
(* answers with data or with an error at any later time.                   *)
(***************************************************************************)
\* new RateLimiter(5, 15 * 60 * 1000)
maxAttempts == 5
windowMs == 15 * 60 * 1000

\* how many calls of handleLogin() are followed
MaxLogins == 6

\* how many times the clock is advanced, each time by a third of the window
MaxTicks == 4
TickMs == windowMs \div 3

\* userAttempts.filter(time => now - time < this.windowMs)
Recent(userAttempts, t) == SelectSeq(userAttempts, LAMBDA time : t - time < windowMs)

\* canAttempt(identifier) at time t: the map as the call leaves it, and the
\* value returned
canAttempt(map, identifier, t) ==
    LET recentAttempts == Recent(map[identifier], t)
    IN [attempts |-> [map EXCEPT ![identifier] = recentAttempts],
        value |-> Len(recentAttempts) < maxAttempts]

\* recordAttempt(identifier) at time t
recordAttempt(map, identifier, t) == [map EXCEPT ![identifier] = Append(@, t)]

\* getRemainingAttempts(identifier) at time t
getRemainingAttempts(map, identifier, t) ==
    Max(0, maxAttempts - Len(Recent(map[identifier], t)))

\* getTimeUntilReset(identifier) at time t; Math.min() of no attempt is
\* Infinity, and so is the value returned then
getTimeUntilReset(map, identifier, t) ==
    LET userAttempts == map[identifier]
        times == {userAttempts[i] : i \in 1..Len(userAttempts)}
    IN IF times = {} THEN [infinite |-> TRUE, ms |-> 0]
       ELSE LET oldestAttempt == CHOOSE x \in times : \A y \in times : x <= y
            IN [infinite |-> FALSE, ms |-> Max(0, windowMs - (t - oldestAttempt))]

\* Math.ceil(ms / 60000)
MinutesToWait(ms) == (ms + 59999) \div 60000

\* /^[^\s@]+@[^\s@]+\.[^\s@]+$/.test(email)
isValidEmail(email) ==
    /\ \A i \in 1..Len(email) : ~IsTrimSpace(email[i])
    /\ Cardinality({i \in 1..Len(email) : email[i] = 64}) = 1
    /\ \E at \in 2..Len(email) :
          /\ email[at] = 64
          /\ \E dot \in (at + 2)..(Len(email) - 1) : email[dot] = 46

MsgFillIn == "Please fill in all fields"
MsgInvalidEmail == "Please enter a valid email address"
MsgTooMany == "Too many login attempts. Please wait ${timeRemaining} minutes before trying again."
MsgLoginOk == "Login successful!"
MsgLoginError == "this.getErrorMessage(error)"

\* validateLoginInput(credentials): the message shown, "none" when the input
\* is accepted
validateLoginInput(credentials) ==
    IF credentials.email = <<>> \/ credentials.password = <<>> THEN MsgFillIn
    ELSE IF ~isValidEmail(credentials.email) THEN MsgInvalidEmail
    ELSE "none"

\* what the login form may hold when handleLogin() is called
LoginInputs ==
    {[email |-> e, password |-> <<112, 119>>] : e \in {
        \* "a@b.co"
        <<97, 64, 98, 46, 99, 111>>,
        \* "A@B.co", the same identifier in capitals
        <<65, 64, 66, 46, 99, 111>>,
        \* "a@b", no dot after the at sign
        <<97, 64, 98>>}}
    \cup {[email |-> <<97, 64, 98, 46, 99, 111>>, password |-> <<>>]}

\* handleLogin() up to its await of authHelpers.signIn
handleLogin ==
    /\ loginStarted < MaxLogins
    /\ loginStarted' = loginStarted + 1
    /\ \E credentials \in LoginInputs :
          IF validateLoginInput(credentials) # "none"
          THEN /\ loginMessage' = [text |-> validateLoginInput(credentials),
                                   identifier |-> <<>>, n |-> 0]
               /\ UNCHANGED <<attempts, logins>>
          ELSE LET identifier == toLowerCase(credentials.email)
                   check == canAttempt(attempts, identifier, now)
                   wait == getTimeUntilReset(check.attempts, identifier, now)
               IN /\ attempts' = check.attempts
                  /\ IF ~check.value
                     THEN /\ loginMessage' = [text |-> MsgTooMany,
                                              identifier |-> identifier,
                                              n |-> MinutesToWait(wait.ms)]
                          /\ UNCHANGED logins
                     ELSE /\ logins' = logins
                                       (+) SetToBag({[identifier |-> identifier,
                                                      madeAt |-> now]})
                          /\ UNCHANGED loginMessage
    /\ UNCHANGED <<now, failedCalls>>

\* authHelpers.signIn has answered the call c: an error is recorded as an
\* attempt and reported, with the attempts left when they are 1 or 2
SignIn(c) ==
    /\ \E reply \in Replies :
          IF reply = "error"
          THEN \E recorded \in {recordAttempt(attempts, c.identifier, now)} :
                  /\ attempts' = recorded
                  /\ failedCalls' = [failedCalls EXCEPT ![c.identifier] =
                                         @ (+) SetToBag({c.madeAt})]
                  /\ loginMessage' =
                         [text |-> MsgLoginError,
                          identifier |-> c.identifier,
                          n |-> IF getRemainingAttempts(recorded, c.identifier, now) \in {1, 2}
                                THEN getRemainingAttempts(recorded, c.identifier, now)
                                ELSE 0]
          ELSE /\ loginMessage' = [text |-> MsgLoginOk, identifier |-> c.identifier, n |-> 0]
               /\ UNCHANGED <<attempts, failedCalls>>
    /\ logins' = logins (-) SetToBag({c})
    /\ UNCHANGED <<now, loginStarted>>

\* time passes
Tick ==
    /\ now < MaxTicks * TickMs
    /\ now' = now + TickMs
    /\ UNCHANGED <<attempts, logins, loginStarted, loginMessage, failedCalls>>

\* a page on which nothing but the login form is used
InitLogin ==
    /\ analyzer = TweetAnalyzer(<<>>)
    /\ calls = 0
    /\ outcome = "none"
    /\ result = NoResult
    /\ first = NoResult
    /\ other = TweetAnalyzer(<<>>)
    /\ otherOutcome = "none"
    /\ otherResult = NoResult
    /\ PageAtRest

NextLogin ==
    /\ \/ handleLogin
       \/ \E c \in BagToSet(logins) : SignIn(c)
       \/ Tick
    /\ UNCHANGED <<engineVars, appVars>>

SpecLogin == InitLogin /\ [][NextLogin]_vars

(***************************************************************************)
(* Properties                                                              *)
(***************************************************************************)
EngagementLabels == {"Very High", "High", "Medium", "Low", "Very Low"}
ReachLabels == {"Viral Potential", "High Reach", "Good Reach", "Limited Reach", "Low Reach"}
TimeSlots == {TimeMorning, TimeLunch, TimeAfternoon, TimeEvening}
ResultFields == {"score", "engagement", "reach", "analysis", "suggestions", "optimalTime", "factors"}
FactorSet == {FactorNames[i] : i \in 1..Len(FactorNames)}

\* the six factor scores of a returned object, in factor order
ScoresOf(r) == [i \in 1..Len(FactorNames) |-> r.factors[FactorNames[i]].score]

\* twice the weighted sum 2*Length + 1.5*Hashtags + 1.5*Emojis + 2*Engagement
\* + 1.5*Sentiment + 1.5*Structure of a returned object, in exact arithmetic
TwiceWeightedSum(r) ==
    4 * r.factors.length.score + 3 * r.factors.hashtags.score
    + 3 * r.factors.emojis.score + 4 * r.factors.engagement.score
    + 3 * r.factors.sentiment.score + 3 * r.factors.structure.score

\* the sum of the six weights, as calculateOverallScore accumulates it, is
\* exactly 1.0 (this is what makes DblDiv total on the engine's use of it)
TotalWeightIsOne ==
    SumFactors(analyzer.factors, 1, [weightedSum |-> DblZero, totalWeight |-> DblZero]).totalWeight
        = DblFromInt(1)

\* C1: every call of analyze on a string (the empty one, one without ASCII
\* letters, one longer than 280 included) returns instead of raising, and the
\* object returned carries a score, an engagement label, a reach label, a
\* narrative, a list of suggestions, a posting time and the six factors
C1_AnalyzeReturns ==
    calls > 0 =>
        /\ outcome = "returned"
        /\ DOMAIN result = ResultFields
        /\ result.score \in Int
        /\ result.engagement \in EngagementLabels
        /\ result.reach \in ReachLabels
        /\ Len(result.analysis) >= 1
        /\ result.suggestions \in Seq(STRING)
        /\ result.optimalTime \in TimeSlots
        /\ DOMAIN result.factors = FactorSet

\* analyze has returned on a text longer than the 280 limit
C1_Witness == outcome = "returned" /\ Len(analyzer.tweet) > 280

\* C2: after analyze, each of the six factor scores is an integer from 1 to
\* 10; none is left at the 0 the constructor sets
C2_FactorScoresInRange ==
    outcome = "returned" =>
        \A name \in FactorSet :
            /\ result.factors[name].score \in 1..10
            /\ analyzer.factors[name].score \in 1..10

\* analyze has returned on a text whose Structure score was clamped up to 1
C2_Witness ==
    /\ outcome = "returned"
    /\ result.factors.structure.score = 1
    /\ analyzer.tweet = toLowerCase(analyzer.tweet)
    /\ analyzer.tweet = toUpperCase(analyzer.tweet)

\* C3: the returned score is an integer nearest to the weighted sum of the
\* six factor scores (at most one half away from it) and lies in 10..100
C3_ScoreIsRoundedWeightedSum ==
    outcome = "returned" =>
        /\ 2 * result.score - TwiceWeightedSum(result) \in {-1, 0, 1}
        /\ result.score \in 10..100

\* analyze has returned a score for a weighted sum that is not an integer
C3_Witness ==
    /\ outcome = "returned"
    /\ TwiceWeightedSum(result) % 2 = 1

\* the descending threshold ladder, applied to an integer score
LadderEngagement(n) ==
    IF n >= 80 THEN "Very High" ELSE IF n >= 65 THEN "High"
    ELSE IF n >= 50 THEN "Medium" ELSE IF n >= 35 THEN "Low" ELSE "Very Low"
LadderReach(n) ==
    IF n >= 80 THEN "Viral Potential" ELSE IF n >= 65 THEN "High Reach"
    ELSE IF n >= 50 THEN "Good Reach" ELSE IF n >= 35 THEN "Limited Reach" ELSE "Low Reach"

\* C4: the engagement label and the reach label of a returned object are the
\* ones the threshold ladder assigns to the score of the same object
C4_LabelsMatchReturnedScore ==
    outcome = "returned" =>
        /\ result.engagement = LadderEngagement(result.score)
        /\ result.reach = LadderReach(result.score)

\* C5: the list of suggestions analyze returns has at most 4 entries
C5_AtMostFourSuggestions ==
    outcome = "returned" => Len(result.suggestions) <= 4

\* analyze has returned 4 suggestions for a text whose six factors are all
\* below 7, so that at least seven were collected before the cut
C5_Witness ==
    /\ outcome = "returned"
    /\ \A name \in FactorSet : result.factors[name].score < 7
    /\ Len(result.suggestions) = 4

\* C8: the Length score is, by the measured length n: 71..100 -> 10; else
\* 50..140 -> 8 (140 scores 8); else 141..200 -> 7; else n < 30 -> 4; else
\* n > 250 -> 3; else (30..49, 201..250) -> 5
C8_LengthBands ==
    outcome = "returned" =>
        LET n == Len(analyzer.tweet)
        IN result.factors.length.score =
               CASE n \in 71..100 -> 10
                 [] n \in 50..70 \cup 101..140 -> 8
                 [] n \in 141..200 -> 7
                 [] n \in 0..29 -> 4
                 [] n > 250 -> 3
                 [] n \in 30..49 \cup 201..250 -> 5

\* analyze has returned on a text of length exactly 140, scored 8
C8_Witness ==
    /\ outcome = "returned"
    /\ Len(analyzer.tweet) = 140
    /\ result.factors.length.score = 8

\* C10: the posting time is the evening slot when the text contains '?',
\* otherwise the lunch slot when it contains a hashtag token, otherwise the
\* morning slot; the afternoon slot is never returned
C10_PostingTimeTree ==
    outcome = "returned" =>
        /\ result.optimalTime =
               IF \E i \in 1..Len(analyzer.tweet) : analyzer.tweet[i] = 63 THEN TimeEvening
               ELSE IF \E i \in 1..(Len(analyzer.tweet) - 1) :
                           analyzer.tweet[i] = 35 /\ IsWordChar(analyzer.tweet[i + 1])
                    THEN TimeLunch
               ELSE TimeMorning
        /\ result.optimalTime # TimeAfternoon

\* analyze has returned the evening slot for a text that holds both a '?' and
\* a hashtag token
C10_Witness ==
    /\ outcome = "returned"
    /\ CountHashtags(analyzer.tweet) > 0
    /\ includes(analyzer.tweet, <<63>>)
    /\ result.optimalTime = TimeEvening

\* C6: analyze keeps no hidden state: a second call on the same analyzer
\* returns an object equal in every field to the one the first call returned
\* and leaves the same factor scores, and two analyzers constructed on the
\* same text return equal objects
C6_Deterministic ==
    /\ (calls >= 2 /\ outcome = "returned") =>
           (result = first /\ analyzer.factors = first.factors)
    /\ (outcome = "returned" /\ otherOutcome = "returned" /\ other.tweet = analyzer.tweet) =>
           otherResult = result

\* analyze has been called twice on one analyzer and once on a second analyzer
\* constructed on the same non-empty text
C6_Witness ==
    /\ calls = 2
    /\ outcome = "returned"
    /\ otherOutcome = "returned"
    /\ other.tweet = analyzer.tweet
    /\ Len(analyzer.tweet) > 0

\* C7: two texts with the same six factor scores get the same suggestions
C7_SuggestionsFromScoresAlone ==
    (outcome = "returned" /\ otherOutcome = "returned"
        /\ ScoresOf(result) = ScoresOf(otherResult)) =>
            result.suggestions = otherResult.suggestions

\* C7, as amended: two texts with the same six factor scores that are both
\* shorter than 50 code units, or both not, get the same suggestions
C7_SuggestionsFromScoresAndLength ==
    (outcome = "returned" /\ otherOutcome = "returned"
        /\ ScoresOf(result) = ScoresOf(otherResult)
        /\ (Len(analyzer.tweet) < 50 <=> Len(other.tweet) < 50)) =>
            result.suggestions = otherResult.suggestions

\* two different texts, both longer than 200, with the same six factor scores
\* and a Length score below 7 have been analysed
C7_Witness ==
    /\ outcome = "returned"
    /\ otherOutcome = "returned"
    /\ analyzer.tweet # other.tweet
    /\ ScoresOf(result) = ScoresOf(otherResult)
    /\ result.factors.length.score < 7
    /\ Len(analyzer.tweet) > 200
    /\ Len(other.tweet) > 200

\* the number of Unicode scalar values of a text: a surrogate pair is one
ScalarCount(s) == Len(s) - Cardinality({i \in 1..Len(s) : IsPairAt(s, i)})

\* C9: a text of 71 to 100 Unicode scalar values has Length score 10
C9_ScalarCountBand ==
    (outcome = "returned" /\ ScalarCount(analyzer.tweet) \in 71..100) =>
        result.factors.length.score = 10

\* C9, as amended: a text of 71 to 100 UTF-16 code units has Length score 10,
\* a character outside the Basic Multilingual Plane counting as two
C9_CodeUnitBand ==
    (outcome = "returned" /\ Len(analyzer.tweet) \in 71..100) =>
        result.factors.length.score = 10

\* analyze has scored 10 a text of 71 code units that holds a surrogate pair,
\* so only 70 scalar values
C9_Witness ==
    /\ outcome = "returned"
    /\ Len(analyzer.tweet) = 71
    /\ ScalarCount(analyzer.tweet) = 70
    /\ result.factors.length.score = 10

\* the three things the Structure score reads besides the case of the letters
StructureInputs(s) ==
    <<CountSentences(s), includes(s, <<10>>) /\ Len(s) > 100, HasDigit(s)>>

\* C13: of two texts that agree on the segment count, on 'has a line break
\* and is longer than 100' and on the presence of a digit, the first in
\* capitals only (with a capital A-Z) and the second with a capital and a
\* lower-case letter, the first scores exactly 3 less on Structure
C13_UppercasePenaltyIsThree ==
    (/\ outcome = "returned" /\ otherOutcome = "returned"
     /\ StructureInputs(analyzer.tweet) = StructureInputs(other.tweet)
     /\ analyzer.tweet = toUpperCase(analyzer.tweet) /\ HasUpperAZ(analyzer.tweet)
     /\ HasUpperAZ(other.tweet) /\ \E i \in 1..Len(other.tweet) : IsLowerAZ(other.tweet[i]))
    => otherResult.factors.structure.score - result.factors.structure.score = 3

\* a text in capitals and a mixed-case text, both with two to four segments,
\* a line break, a digit and more than 100 units, have been analysed: the
\* mixed-case one reaches the cap of 10
C13_Witness ==
    /\ outcome = "returned" /\ otherOutcome = "returned"
    /\ StructureInputs(analyzer.tweet) = StructureInputs(other.tweet)
    /\ StructureInputs(analyzer.tweet) = <<3, TRUE, TRUE>>
    /\ analyzer.tweet = toUpperCase(analyzer.tweet) /\ HasUpperAZ(analyzer.tweet)
    /\ \E i \in 1..Len(other.tweet) : IsLowerAZ(other.tweet[i])
    /\ otherResult.factors.structure.score = 10
    /\ result.factors.structure.score = 7

\* C14: analyze on the empty text raises no error and returns a score of at
\* least 0 with the labels Very Low / Low Reach or Low / Limited Reach
C14_EmptyTextIsScored ==
    (calls >= 1 /\ analyzer.tweet = <<>>) =>
        /\ outcome = "returned"
        /\ result.score >= 0
        /\ \/ (result.engagement = "Very Low" /\ result.reach = "Low Reach")
           \/ (result.engagement = "Low" /\ result.reach = "Limited Reach")

\* analyze has returned for the empty text: score 45 from the factor scores
\* 4, 6, 6, 5, 5 and 1
C14_Witness ==
    /\ calls >= 1
    /\ analyzer.tweet = <<>>
    /\ outcome = "returned"
    /\ result.score = 45
    /\ ScoresOf(result) = <<4, 6, 6, 5, 5, 1>>

\* C16: the Structure score is 5, plus 2 for two to four segments, plus 1 for
\* a line break in a text longer than 100, plus 1 for a digit, plus 1 for a
\* capital letter, minus 2 for a non-empty text equal to its lower-case form,
\* minus 3 for a text equal to its upper-case form, kept within 1..10
C16_StructureFormula ==
    outcome = "returned" =>
        LET s == analyzer.tweet
            sum == 5
                   + (IF CountSentences(s) \in 2..4 THEN 2 ELSE 0)
                   + (IF includes(s, <<10>>) /\ Len(s) > 100 THEN 1 ELSE 0)
                   + (IF HasDigit(s) THEN 1 ELSE 0)
                   + (IF HasUpperAZ(s) THEN 1 ELSE 0)
                   - (IF s # <<>> /\ s = toLowerCase(s) THEN 2 ELSE 0)
                   - (IF s = toUpperCase(s) THEN 3 ELSE 0)
        IN result.factors.structure.score = Max(1, Min(sum, 10))

\* the entries of a list, as a set
Entries(list) == {list[i] : i \in 1..Len(list)}

\* C17: 'share a personal story' or 'include numbers or statistics' is among
\* the returned suggestions only when the returned score is below 60
C17_FallbackOnlyBelow60 ==
    (outcome = "returned"
        /\ Entries(result.suggestions) \cap {SuggestStory, SuggestNumbers} # {})
    => result.score < 60

\* the first four entries of a list, or all of it when it is shorter
FirstFour(list) == [i \in 1..Min(Len(list), 4) |-> list[i]]

\* the entries the six factor steps contribute for a text s with factor
\* record f, in the fixed order; a step contributes only below 7
FactorSteps(s, f) ==
    (IF f.length.score < 7
     THEN IF Len(s) < 50 THEN <<SuggestAddContext>>
          ELSE IF Len(s) > 200 THEN <<SuggestShorten>> ELSE <<>>
     ELSE <<>>)
    \o (IF f.hashtags.score < 7
        THEN IF CountHashtags(s) = 0 THEN <<SuggestAddHashtags>>
             ELSE IF CountHashtags(s) > 3 THEN <<SuggestReduceHashtags>> ELSE <<>>
        ELSE <<>>)
    \o (IF f.emojis.score < 7
        THEN IF CountEmojis(s) = 0 THEN <<SuggestAddEmoji>>
             ELSE IF CountEmojis(s) > 3 THEN <<SuggestReduceEmoji>> ELSE <<>>
        ELSE <<>>)
    \o (IF f.engagement.score < 7 THEN <<SuggestAskQuestion, SuggestAddWords>> ELSE <<>>)
    \o (IF f.sentiment.score < 7 THEN <<SuggestPositive>> ELSE <<>>)
    \o (IF f.structure.score < 7 THEN <<SuggestBreakUp>> ELSE <<>>)

\* C18: the returned suggestions are the first four entries (or all) of the
\* list made of the length, hashtag, emoji, engagement (two), sentiment and
\* structure suggestions in this order, each only for a factor score below 7,
\* followed by the two fallbacks when they are given; no entry is repeated
C18_FirstFourInFixedOrder ==
    outcome = "returned" =>
        /\ \E general \in {<<>>, <<SuggestStory, SuggestNumbers>>} :
               result.suggestions
                   = FirstFour(FactorSteps(analyzer.tweet, result.factors) \o general)
        /\ Cardinality(Entries(result.suggestions)) = Len(result.suggestions)

\* a list of more than four entries was built, with the sentiment and the
\* structure suggestion among the first four and the fallbacks cut off
C18_Witness ==
    /\ outcome = "returned"
    /\ Len(FactorSteps(analyzer.tweet, result.factors)) >= 4
    /\ result.score < 59
    /\ Len(result.suggestions) = 4
    /\ result.suggestions[3] = SuggestPositive
    /\ result.suggestions[4] = SuggestBreakUp

\* how many terms of a vocabulary occur in a text, whatever the case
TermsFound(s, words) == CountIncluded(toLowerCase(s), words)

\* C19: the Engagement score is min(10, 5 + 2 for a question mark + 1 for one
\* or two exclamation marks + 2 for a vocabulary term + 1 for three terms);
\* it is at least 5, and three or more exclamation marks change nothing
C19_EngagementFormula ==
    outcome = "returned" =>
        LET s == analyzer.tweet
            q == CountChar(s, 63)
            e == CountChar(s, 33)
            w == TermsFound(s, engagementWords)
            sum == 5 + (IF q >= 1 THEN 2 ELSE 0) + (IF e \in {1, 2} THEN 1 ELSE 0)
                     + (IF w >= 1 THEN 2 ELSE 0) + (IF w >= 3 THEN 1 ELSE 0)
        IN /\ result.factors.engagement.score = Min(10, sum)
           /\ result.factors.engagement.score >= 5

\* a text with a question mark, one or two exclamation marks and three
\* vocabulary terms adds up to 11 and scores 10
C19_Witness ==
    /\ outcome = "returned"
    /\ CountChar(analyzer.tweet, 63) >= 1
    /\ CountChar(analyzer.tweet, 33) \in {1, 2}
    /\ TermsFound(analyzer.tweet, engagementWords) >= 3
    /\ result.factors.engagement.score = 10

\* C20: with p positive and q negative terms found, the Sentiment score is
\* 8 + min(p, 2) when p > q, 4 - min(q, 2) when q > p and 5 when p = q; it is
\* one of 2, 3, 5, 9, 10 and is below 7 exactly when p <= q
C20_SentimentFormula ==
    outcome = "returned" =>
        LET p == TermsFound(analyzer.tweet, positiveWords)
            q == TermsFound(analyzer.tweet, negativeWords)
            score == result.factors.sentiment.score
        IN /\ p > q => score = 8 + Min(p, 2)
           /\ q > p => score = 4 - Min(q, 2)
           /\ p = q => score = 5
           /\ score \in {2, 3, 5, 9, 10}
           /\ score < 7 <=> p <= q

\* a text with as many positive as negative terms, one of each, scores 5
C20_Witness ==
    /\ outcome = "returned"
    /\ TermsFound(analyzer.tweet, positiveWords) = 1
    /\ TermsFound(analyzer.tweet, negativeWords) = 1
    /\ result.factors.sentiment.score = 5

\* C11: for an account on the pack plan, no more analyses are carried out
\* than the pack holds, whatever the interleaving of the calls; the
\* remaining credits never go below 0 and, once every call has returned,
\* they are the pack less one for every analysis carried out
C11_PackNeverExceeded ==
    user_profiles.plan_type = "pack" =>
        /\ carriedOut <= MaxCredits
        /\ user_profiles.pack_analyses_remaining >= 0
        /\ invocations = EmptyBag =>
               user_profiles.pack_analyses_remaining = MaxCredits - carriedOut

\* C12: for an account on the free plan, at most 3 analyses are carried out
\* in a day, whatever the database answers to the credit and the save calls
C12_FreeAtMostThreeADay ==
    user_profiles.plan_type = "free" => carriedOut <= FreeDailyLimit

\* the engine has run only in calls whose text is not empty and has at most
\* 280 code units
EngineRanOnValidText ==
    \A c \in BagToSet(invocations) :
        c.engine # "none" => (c.tweet # <<>> /\ Len(c.tweet) <= maxTweetLength)

\* a call of analyzeTweet() is made in this step
CallMade == started' = started + 1

\* the input is missing, or empty after trimming, or longer than 280 after
\* trimming
InputInvalid == ~IsValidTweet(TrimmedInput(tweetInput))

\* C15: a call made on a missing, empty, blank or too long input reports the
\* invalid-input error and starts no analysis; the engine only ever runs on
\* a non-empty text of at most 280
C15_InvalidInputReported ==
    /\ [][(CallMade /\ InputInvalid) =>
              (console' = MsgInvalid /\ invocations' = invocations)]_vars
    /\ []EngineRanOnValidText

\* C15, as amended: with a user signed in, a call made on a missing, empty,
\* blank or too long input (after trimming) reports the invalid-input error
\* and starts no analysis; with nobody signed in, any call opens the sign-in
\* dialog instead and starts no analysis; the engine only ever runs on a
\* non-empty trimmed text of at most 280 code units
C15_InvalidInputReportedWhenSignedIn ==
    /\ [][(CallMade /\ InputInvalid /\ state.currentUser # "null") =>
              (console' = MsgInvalid /\ invocations' = invocations)]_vars
    /\ [][(CallMade /\ state.currentUser = "null") =>
              (console' = MsgShowAuthModal /\ invocations' = invocations)]_vars
    /\ []EngineRanOnValidText

\* with a user signed in, a call was made on a text of 281 code units: the
\* error was reported and no analysis is under way
C15_Witness ==
    /\ started >= 1
    /\ state.currentUser # "null"
    /\ tweetInput.present
    /\ Len(trim(tweetInput.value)) = maxTweetLength + 1
    /\ console = MsgInvalid
    /\ invocations = EmptyBag

\* C21: the Hashtags score is 10 for one or two hashtag tokens, 8 for three,
\* 6 for none and 4 for more than three; it is never the base value 5
C21_HashtagBands ==
    outcome = "returned" =>
        LET count == CountHashtags(analyzer.tweet)
            score == result.factors.hashtags.score
        IN /\ count \in {1, 2} => score = 10
           /\ count = 3 => score = 8
           /\ count = 0 => score = 6
           /\ count > 3 => score = 4
           /\ score # 5

\* a text with exactly four hashtag tokens, the first count past the bands
\* that are tested by equality, scores 4
C21_Witness ==
    /\ outcome = "returned"
    /\ CountHashtags(analyzer.tweet) = 4
    /\ result.factors.hashtags.score = 4

\* C22: the Emojis score is 10 for one or two emoji, 8 for three, 6 for
\* none, 5 for four and 4 for more than four; with exactly four emoji the
\* score is below 7 and the suggestion returned for the factor is the one to
\* reduce emojis, never the one to add an emoji
C22_EmojiBands ==
    outcome = "returned" =>
        LET count == CountEmojis(analyzer.tweet)
            score == result.factors.emojis.score
        IN /\ count \in {1, 2} => score = 10
           /\ count = 3 => score = 8
           /\ count = 0 => score = 6
           /\ count = 4 => score = 5
           /\ count > 4 => score = 4
           /\ (count = 4 /\ score < 7) =>
                  /\ SuggestReduceEmoji \in Entries(result.suggestions)
                  /\ SuggestAddEmoji \notin Entries(result.suggestions)

\* a text with exactly four emoji scores the base value 5 and is told to
\* reduce them
C22_Witness ==
    /\ outcome = "returned"
    /\ CountEmojis(analyzer.tweet) = 4
    /\ result.factors.emojis.score = 5
    /\ SuggestReduceEmoji \in Entries(result.suggestions)

\* the opening sentence that belongs to the band of an engagement label
OpeningOfBand(label) ==
    CASE label = "Very High" -> "Excellent tweet! This has strong viral potential with great engagement factors."
      [] label = "High" -> "Strong tweet with good engagement potential. Minor improvements could boost performance."
      [] label = "Medium" -> "Decent tweet that should perform reasonably well. Consider the suggestions to improve reach."
      [] label = "Low" -> "This tweet needs improvement in several areas to maximize engagement."
      [] label = "Very Low" -> "Significant improvements needed. Consider rewriting with engagement and structure in mind."

\* the places of a narrative where a sentence with the given fixed text stands
PlacesOf(narrative, text) == {i \in 1..Len(narrative) : narrative[i].text = text}

\* the factors of a returned object that score below 6, and those that score
\* 8 or more, in factor order
WeakOf(r) == SelectSeq(FactorNames, LAMBDA name : r.factors[name].score < 6)
StrongOf(r) == SelectSeq(FactorNames, LAMBDA name : r.factors[name].score >= 8)

\* C23: the narrative opens with the sentence of the band that gives the
\* engagement label of the same result; a weak-areas sentence follows exactly
\* when a factor scores below 6 and lists exactly those factors; a
\* strong-points sentence follows exactly when a factor scores 8 or more and
\* lists exactly those; the weak-areas sentence stands before the
\* strong-points sentence, and no factor is listed in both
C23_NarrativeShape ==
    outcome = "returned" =>
        LET a == result.analysis
            weakAt == PlacesOf(a, "Areas needing improvement: ")
            strongAt == PlacesOf(a, "Strong points: ")
        IN /\ a[1] = [text |-> OpeningOfBand(result.engagement), names |-> <<>>]
           /\ weakAt \cup strongAt = 2..Len(a)
           /\ Cardinality(weakAt) = (IF WeakOf(result) # <<>> THEN 1 ELSE 0)
           /\ Cardinality(strongAt) = (IF StrongOf(result) # <<>> THEN 1 ELSE 0)
           /\ \A i \in weakAt : a[i].names = WeakOf(result)
           /\ \A i \in strongAt : a[i].names = StrongOf(result)
           /\ \A i \in weakAt : \A j \in strongAt : i < j
           /\ \A i \in weakAt : \A j \in strongAt :
                  Entries(a[i].names) \cap Entries(a[j].names) = {}

\* a narrative of three sentences whose score was rounded up into the next
\* band: the opening is the one of the label, not the one of the score
C23_Witness ==
    /\ outcome = "returned"
    /\ Len(result.analysis) = 3
    /\ result.engagement # LadderEngagement(result.score)
    /\ result.analysis[1].text = OpeningOfBand(result.engagement)
    /\ result.analysis[2].text = "Areas needing improvement: "
    /\ result.analysis[3].text = "Strong points: "

\* the weighted aggregate of a returned object is below 60: twice the
\* weighted sum of the six scores is below 12
AggregateBelow60(r) == TwiceWeightedSum(r) < 120

\* C24: whenever the weighted aggregate of a result is below 60, the returned
\* list of suggestions has exactly 4 entries: at least two factors score
\* below 7, every factor below 7 contributes a suggestion, and the two
\* fallbacks are appended
C24_FourSuggestionsBelow60 ==
    (outcome = "returned" /\ AggregateBelow60(result)) =>
        /\ Len(result.suggestions) = 4
        /\ Cardinality({name \in FactorSet : result.factors[name].score < 7}) >= 2
        /\ Len(FactorSteps(analyzer.tweet, result.factors))
               >= Cardinality({name \in FactorSet : result.factors[name].score < 7})
        /\ Len(FactorSteps(analyzer.tweet, result.factors)) >= 2

\* an aggregate below 60 with only two factors below 7, where the list is
\* filled up to four by the two fallbacks
C24_Witness ==
    /\ outcome = "returned"
    /\ AggregateBelow60(result)
    /\ Cardinality({name \in FactorSet : result.factors[name].score < 7}) = 2
    /\ Len(FactorSteps(analyzer.tweet, result.factors)) = 2
    /\ result.suggestions[3] = SuggestStory
    /\ result.suggestions[4] = SuggestNumbers

\* C25: the returned list of suggestions is empty if and only if all six
\* factor scores are at least 7
C25_EmptyIffAllAtLeast7 ==
    outcome = "returned" =>
        (result.suggestions = <<>>
            <=> \A name \in FactorSet : result.factors[name].score >= 7)

\* a text all of whose factors score 7 or more gets no suggestion, and its
\* lowest score is exactly 7
C25_Witness ==
    /\ outcome = "returned"
    /\ result.suggestions = <<>>
    /\ \E name \in FactorSet : result.factors[name].score = 7
    /\ \A name \in FactorSet : result.factors[name].score >= 7

\* C26: whenever the posting time of a result is the evening slot, the
\* Engagement score is at least 7 and neither of the two engagement
\* suggestions is among the returned suggestions
C26_EveningMeansEngaging ==
    (outcome = "returned" /\ result.optimalTime = TimeEvening) =>
        /\ result.factors.engagement.score >= 7
        /\ SuggestAskQuestion \notin Entries(result.suggestions)
        /\ SuggestAddWords \notin Entries(result.suggestions)

\* the evening slot for a text whose only engagement signal is its question
\* mark: the Engagement score is exactly 7
C26_Witness ==
    /\ outcome = "returned"
    /\ result.optimalTime = TimeEvening
    /\ TermsFound(analyzer.tweet, engagementWords) = 0
    /\ CountChar(analyzer.tweet, 33) = 0
    /\ result.factors.engagement.score = 7
    /\ result.suggestions # <<>>

\* C27: every result the engine returns is accepted by the table that
\* stores it: its engagement label and its reach label are among the values
\* the CHECK constraints of tweet_analyses allow, and its score is from 0 to
\* 100
C27_ResultAcceptedByTable ==
    outcome = "returned" =>
        TableAccepts(InsertedRow("user", AnalysisData(analyzer.tweet, result)))

\* C28: whenever nobody is signed in and no handler is under way, the page
\* holds no profile and an empty history, whatever the interleaving of
\* sign-in, sign-out and analyzeTweet
C28_SignedOutMeansCleared ==
    (state.currentUser = "null" /\ invocations = EmptyBag) =>
        (state.userProfile = NoProfile /\ state.analysisHistory = 0)

\* a call is refused in this step: analyzeTweet() returns at the door
\* (nobody signed in, or invalid text), or a call returns from the quota
\* check
RefusedAtTheDoor == started' = started + 1 /\ invocations' = invocations
RefusedByQuotaCheck ==
    \E c \in BagToSet(invocations) :
        /\ c.pc \in {"canPerformAnalysis", "countToday"}
        /\ invocations' = invocations (-) SetToBag({c})

\* a credit is consumed, a record is saved, a log entry is written or
\* results are displayed in this step
EffectMade ==
    \/ user_profiles' # user_profiles
    \/ tweet_analyses' # tweet_analyses
    \/ usage_logs' # usage_logs
    \/ carriedOut' # carriedOut

\* C30: a step in which analyzeTweet refuses (nobody signed in, invalid text,
\* quota check not allowed or failed) consumes no credit, saves no record,
\* writes no log entry, displays no results and leaves state, isAnalyzing
\* included, as it was; and a step that does one of these is made by a call
\* whose quota check has answered allowed
C30_RefusalChangesNothing ==
    /\ [][(RefusedAtTheDoor \/ RefusedByQuotaCheck) =>
              (~EffectMade /\ state' = state)]_vars
    /\ [][EffectMade =>
              \E c \in BagToSet(invocations) :
                  /\ c.engine = "returned"
                  /\ invocations' \in {invocations (-) SetToBag({c})}
                         \cup {(invocations (-) SetToBag({c}))
                                   (+) SetToBag({[c EXCEPT !.pc = p]}) :
                               p \in {"saveTweetAnalysis", "loadUserProfile"}}]_vars

\* a call on an exhausted pack was refused while another call, which had
\* taken the last credit, was still under way with isAnalyzing set
C30_Witness ==
    /\ console = MsgPackLimit
    /\ state.isAnalyzing
    /\ user_profiles.plan_type = "pack"
    /\ user_profiles.pack_analyses_remaining = 0
    /\ started = 2
    /\ \E c \in BagToSet(invocations) : c.pc = "saveTweetAnalysis"

\* how many of the failed sign-in calls for an identifier were made in the
\* window that starts at t
FailedInWindow(identifier, t) ==
    LET made == failedCalls[identifier]
        inside == {u \in BagToSet(made) : t <= u /\ u < t + windowMs}
    IN BagCardinality([u \in inside |-> CopiesIn(u, made)])

\* no window of 15 minutes holds more than 5 failed sign-in calls for one
\* identifier
AtMostFiveFailedPerWindow ==
    \A identifier \in Identifiers :
        \A t \in BagToSet(failedCalls[identifier]) :
            FailedInWindow(identifier, t) <= maxAttempts

\* with 5 failures recorded inside the window canAttempt answers false and
\* getTimeUntilReset is greater than 0
BlockedAfterFive ==
    \A identifier \in Identifiers :
        Len(Recent(attempts[identifier], now)) >= maxAttempts =>
            LET check == canAttempt(attempts, identifier, now)
                wait == getTimeUntilReset(check.attempts, identifier, now)
            IN ~check.value /\ (wait.infinite \/ wait.ms > 0)

\* once the oldest recorded failure is 15 minutes old canAttempt answers
\* true
OpenAgainAfterWindow ==
    \A identifier \in Identifiers :
        (/\ attempts[identifier] # <<>>
         /\ \E i \in 1..Len(attempts[identifier]) :
                /\ \A j \in 1..Len(attempts[identifier]) :
                       attempts[identifier][i] <= attempts[identifier][j]
                /\ now - attempts[identifier][i] >= windowMs)
        => canAttempt(attempts, identifier, now).value

\* only failed sign-ins are recorded
OnlyFailuresCounted ==
    \A identifier \in Identifiers :
        Len(attempts[identifier]) <= BagCardinality(failedCalls[identifier])

\* a call of handleLogin() made while every identifier is blocked
BlockedCallMade ==
    /\ loginStarted' = loginStarted + 1
    /\ \A identifier \in Identifiers :
           Len(Recent(attempts[identifier], now)) >= maxAttempts

====
